---- MODULE Spec2Model ----
(***************************************************************************)
(* A model of libobs/obs-stage.c: reference-counted stages, their output  *)
(* collections, the global stage registry and the stage signals.           *)
(*                                                                         *)
(* Every public function is a sequence of steps of the calling thread;     *)
(* pc[t] is the thread's position, stk[t] the labels it returns to.  A     *)
(* step is one atomic access (a counter operation, a mutex operation) or a *)
(* stretch of code nobody else can observe.                                *)
(***************************************************************************)
EXTENDS Bags, FiniteSets, Integers, Sequences, TLC

\* ------------------------------------------------------------------ bounds
NStages == 2
NThreads == 2
NOutputs == 2
MaxRefs == 3
MaxCalls == 3

NULL == 0
Stages == 1..NStages
Threads == 1..NThreads
Outputs == 1..NOutputs

\* Names: "" is the empty string, the others are distinct non-empty names.
Names == {"a", "b"}
NameArgs == Names \cup {"", "null"}

\* Flag bits of a stage (obs.h), as a set of the bits that are set.
OBS_STAGE_MAIN == "MAIN"
OBS_STAGE_MIX_AUDIO == "MIX_AUDIO"
OBS_STAGE_EPHEMERAL == "EPHEMERAL"

VARIABLES
    \* --- struct obs_stage, one per stage id
    mem,          \* "unalloc" | "live" | "freed": the stage's memory (bzalloc / bfree)
    sname,        \* stage->context.name
    sflags,       \* stage->flags
    spriv,        \* stage->context.private
    video,        \* the obs_video_info of the stage's canvas
    canvas,       \* "none" | "bound" | "released": stage->canvas
    cname,        \* the canvas' mirrored name
    outputs,      \* stage->outputs: a sequence of output ids
    nxt,          \* stage->next
    prev_next,    \* stage->prev_next: 0 is &obs->data.first_stage, s is &s->next
    first_stage,  \* obs->data.first_stage
    \* --- the weak control block (obs_weak_stage_t), one per stage id
    refs,         \* strong count
    weak_refs,    \* weak count, the stage's own implicit weak reference included
    ctl,          \* "none" | "live" | "freed"
    \* --- outputs (external collaborator)
    orefs,        \* strong count of an output
    oactive,      \* obs_output_active
    \* --- mutexes
    stages_mutex, \* obs->data.stages_mutex: [owner, depth]
    outputs_mutex,\* stage->outputs_mutex: owner thread or NULL
    \* --- signal buses
    sigs,         \* bag of the signals emitted so far
    \* --- threads
    pc, stk, lstage, lout, lidx, lnext, lname, res,
    \* --- references in the hands of the callers
    owned,        \* owned[t][s]: strong references to stage s held by thread t
    wowned,       \* wowned[t][s]: weak handles to stage s held by thread t
    oext,         \* oext[o]: strong references to output o held outside any stage
    \* --- history
    hist          \* record of counters and marks about what has run

stageVars == <<mem, sname, sflags, spriv, video, canvas, cname, outputs>>
regVars == <<nxt, prev_next, first_stage>>
ctlVars == <<refs, weak_refs, ctl>>
outVars == <<orefs, oactive, oext>>
mtxVars == <<stages_mutex, outputs_mutex>>
thrVars == <<pc, stk, lstage, lout, lidx, lnext, lname, res>>
ownVars == <<owned, wowned>>
vars == <<stageVars, regVars, ctlVars, outVars, mtxVars, sigs, thrVars, ownVars, hist>>

\* ------------------------------------------------------------- helpers
Range(f) == {f[x] : x \in DOMAIN f}

Min(S) == CHOOSE x \in S : \A y \in S : x <= y

IndexOf(seq, x) ==
    IF \E i \in 1..Len(seq) : seq[i] = x
    THEN CHOOSE i \in 1..Len(seq) : seq[i] = x /\ \A j \in 1..(i - 1) : seq[j] # x
    ELSE 0

\* An erase that fills the slot with the last element.
da_erase_swap(seq, i) ==
    [j \in 1..(Len(seq) - 1) |-> IF j = i THEN seq[Len(seq)] ELSE seq[j]]

\* da_erase: the later elements move down by one.
da_erase(seq, i) == [j \in 1..(Len(seq) - 1) |-> IF j < i THEN seq[j] ELSE seq[j + 1]]

\* da_push_back
da_push_back(seq, x) == Append(seq, x)

Signal(bus, name, s, o, new, prev) ==
    [bus |-> bus, sig |-> name, stage |-> s, output |-> o, new_name |-> new, prev_name |-> prev]

Emit(b, recs) == b (+) SetToBag(recs)

SigCount(bus, name, s) ==
    LET hit == {r \in BagToSet(sigs) : r.bus = bus /\ r.sig = name /\ r.stage = s}
    IN  IF hit = {} THEN 0
        ELSE LET Sum[S \in SUBSET hit] ==
                     IF S = {} THEN 0
                     ELSE LET x == CHOOSE x \in S : TRUE IN CopiesIn(x, sigs) + Sum[S \ {x}]
             IN  Sum[hit]

\* stage_dosignal(stage, signal_obs, signal_stage): the global bus when signal_obs
\* is given, the stage's bus when signal_stage is given ("" stands for NULL).
stage_dosignal(b, s, signal_obs, signal_stage) ==
    Emit(b, (IF signal_obs # "" THEN {Signal("obs", signal_obs, s, NULL, "", "")} ELSE {})
            \cup (IF signal_stage # "" THEN {Signal("stage", signal_stage, s, NULL, "", "")} ELSE {}))

\* stage_dosignal_output(stage, signal, output): the stage's bus only.
stage_dosignal_output(b, s, signal, o) == Emit(b, {Signal("stage", signal, s, o, "", "")})

\* ------------------------------------------------ reference counters
\* The counter primitives of obs-internal.h, by their contract in the
\* specification (section 4.1): every one is a single atomic operation.
\* A count is the number of references, the implicit ones included.

\* obs_ref_release: atomic decrement-and-test; <<new count, dropped to zero>>.
obs_ref_release(n) == <<n - 1, n - 1 = 0>>

\* obs_weak_ref_get_ref: promote unless the strong count is already zero.
obs_weak_ref_get_ref(n) == IF n > 0 THEN <<n + 1, TRUE>> ELSE <<n, FALSE>>

\* obs_weak_ref_addref
obs_weak_ref_addref(w) == w + 1

\* obs_weak_ref_release: atomic decrement-and-test on the weak count.
obs_weak_ref_release(w) == <<w - 1, w - 1 = 0>>

\* obs_context_init_control: one strong reference (the creator's) and the
\* implicit weak reference the object holds on its own control block.
obs_context_init_control == [refs |-> 1, weak_refs |-> 1]

\* ------------------------------------------------ output collaborator
\* The child contract of section 6 (obs-output.c is not part of the module).
obs_output_active(o) == oactive[o]

\* obs_output_get_ref: NULL when the output's strong count is already zero.
obs_output_get_ref(cnt, o) == IF cnt[o] > 0 THEN <<[cnt EXCEPT ![o] = @ + 1], o>> ELSE <<cnt, NULL>>

obs_output_release(cnt, o) == [cnt EXCEPT ![o] = @ - 1]

\* obs_output_stop: the output is inactive afterwards.
obs_output_stop(act, o) == [act EXCEPT ![o] = FALSE]

\* obs_output_start: the output is active afterwards when the start succeeded.
obs_output_start(act, o, ok) == IF ok THEN [act EXCEPT ![o] = TRUE] ELSE act

\* ------------------------------------------------ calls and returns
\* Return from a public function: continue at the caller's label; a call made
\* by the thread itself is "done", with its result in res[t].
Ret(t, base, v) ==
    /\ pc' = [pc EXCEPT ![t] = IF base = <<>> THEN "done" ELSE Head(base)]
    /\ stk' = [stk EXCEPT ![t] = IF base = <<>> THEN <<>> ELSE Tail(base)]
    /\ res' = [res EXCEPT ![t] = IF base = <<>> THEN v ELSE @]

Result(op, s, o, v) == [op |-> op, stage |-> s, out |-> o, val |-> v]
NoResult == Result("none", NULL, NULL, "void")

\* A recursive mutex (obs->data.stages_mutex is created with the other data
\* mutexes of the core, which are recursive).
MutexFree == [owner |-> NULL, depth |-> 0]
CanLock(m, t) == m.owner \in {NULL, t}
Lock(m, t) == [owner |-> t, depth |-> m.depth + 1]
Unlock(m) == IF m.depth = 1 THEN MutexFree ELSE [m EXCEPT !.depth = @ - 1]

\* ------------------------------------------------ obs_stage_release
\* release_call with an off-by-one zero test: teardown starts while one
\* reference is still out.
release_call_early(t, s, base) ==
    LET r == obs_ref_release(refs[s]) IN
    /\ mem[s] = "live"
    /\ refs' = [refs EXCEPT ![s] = r[1]]
    /\ owned' = [owned EXCEPT ![t][s] = @ - 1]
    /\ IF r[1] <= 1
       THEN /\ pc' = [pc EXCEPT ![t] = "d_signal"]
            /\ stk' = [stk EXCEPT ![t] = <<"rel_weak">> \o base]
            /\ lstage' = [lstage EXCEPT ![t] = s]
            /\ res' = res
       ELSE /\ Ret(t, base, Result("release", s, NULL, "void"))
            /\ UNCHANGED lstage

\* The body of obs_stage_release(stage) for a caller that returns to `base`.
release_call(t, s, base) ==
    LET r == obs_ref_release(refs[s]) IN
    /\ mem[s] = "live"
    /\ refs' = [refs EXCEPT ![s] = r[1]]
    /\ owned' = [owned EXCEPT ![t][s] = @ - 1]
    /\ IF r[2]
       THEN /\ pc' = [pc EXCEPT ![t] = "d_signal"]
            /\ stk' = [stk EXCEPT ![t] = <<"rel_weak">> \o base]
            /\ lstage' = [lstage EXCEPT ![t] = s]
            /\ res' = res
       ELSE /\ Ret(t, base, Result("release", s, NULL, "void"))
            /\ UNCHANGED lstage

\* obs_stage_release called by a thread on a reference it owns.
obs_stage_release(t, s) ==
    /\ pc[t] = "idle"
    /\ owned[t][s] > 0
    /\ release_call(t, s, <<>>)
    /\ hist' = [hist EXCEPT !.zeroBy[s] = IF refs[s] = 1 THEN @ \cup {t} ELSE @]
    /\ UNCHANGED <<stageVars, regVars, weak_refs, ctl, outVars, mtxVars, sigs,
                   lout, lidx, lnext, lname, wowned>>

\* obs_stage_release on a reference to a stage whose memory was freed under
\* it: the read of stage->context.control is undefined.  Either the thread
\* stops there, or the read yields the old control block, the count is
\* decremented and, at zero, obs_stage_destroy is entered a second time on the
\* freed stage (not followed further).
obs_stage_release_freed(t, s) ==
    LET r == obs_ref_release(refs[s]) IN
    /\ pc[t] = "idle"
    /\ owned[t][s] > 0
    /\ mem[s] = "freed"
    /\ owned' = [owned EXCEPT ![t][s] = @ - 1]
    /\ lstage' = [lstage EXCEPT ![t] = s]
    /\ pc' = [pc EXCEPT ![t] = "ub"]
    /\ \/ /\ hist' = [hist EXCEPT !.uaf[t] = "release"]
          /\ refs' = refs
       \/ /\ ctl[s] = "live"
          /\ refs' = [refs EXCEPT ![s] = r[1]]
          /\ hist' = [hist EXCEPT !.uaf[t] = "release",
                                  !.zeroBy[s] = IF r[2] THEN @ \cup {t} ELSE @,
                                  !.destroyRuns[s] = IF r[2] THEN @ + 1 ELSE @,
                                  !.destroyedBy[s] = IF r[2] THEN @ \cup {t} ELSE @]
    /\ UNCHANGED <<stageVars, regVars, weak_refs, ctl, outVars, mtxVars, sigs,
                   stk, lout, lidx, lnext, lname, res, wowned>>

\* weak_release that frees the control block whatever the weak count is.
weak_release_always_free(s) ==
    LET w == obs_weak_ref_release(weak_refs[s]) IN
    /\ weak_refs' = [weak_refs EXCEPT ![s] = w[1]]
    /\ ctl' = [ctl EXCEPT ![s] = "freed"]
    /\ hist' = [hist EXCEPT !.ctlFrees[s] = @ + 1]

\* obs_weak_stage_release(weak): the decrement of the weak count and, when it
\* was the last weak reference, bfree(weak).
weak_release(s) ==
    LET w == obs_weak_ref_release(weak_refs[s]) IN
    /\ weak_refs' = [weak_refs EXCEPT ![s] = w[1]]
    /\ ctl' = [ctl EXCEPT ![s] = IF w[2] THEN "freed" ELSE @]
    /\ hist' = [hist EXCEPT !.ctlFrees[s] = IF w[2] THEN @ + 1 ELSE @]

obs_stage_release_weak(t) ==
    /\ pc[t] = "rel_weak"
    /\ weak_release(lstage[t])
    /\ Ret(t, stk[t], Result("release", lstage[t], NULL, "void"))
    /\ UNCHANGED <<stageVars, regVars, refs, outVars, mtxVars, sigs,
                   lstage, lout, lidx, lnext, lname, ownVars>>

\* The first step of obs_stage_destroy without its stage_dosignal.
obs_stage_destroy_signal_skipped(t) ==
    LET s == lstage[t] IN
    /\ pc[t] = "d_signal"
    /\ mem[s] = "live"
    /\ hist' = [hist EXCEPT !.destroyRuns[s] = @ + 1, !.destroyedBy[s] = @ \cup {t}]
    /\ pc' = [pc EXCEPT ![t] = "d_lock"]
    /\ UNCHANGED <<stageVars, regVars, ctlVars, outVars, mtxVars, sigs,
                   stk, lstage, lout, lidx, lnext, lname, res, ownVars>>

\* ------------------------------------------------ obs_stage_destroy
\* stage_dosignal(stage, "stage_destroy", "destroy")
obs_stage_destroy_signal(t) ==
    LET s == lstage[t] IN
    /\ pc[t] = "d_signal"
    /\ mem[s] = "live"
    /\ sigs' = stage_dosignal(sigs, s, "stage_destroy", "destroy")
    /\ hist' = [hist EXCEPT !.destroyRuns[s] = @ + 1, !.destroyedBy[s] = @ \cup {t}]
    /\ pc' = [pc EXCEPT ![t] = "d_lock"]
    /\ UNCHANGED <<stageVars, regVars, ctlVars, outVars, mtxVars,
                   stk, lstage, lout, lidx, lnext, lname, res, ownVars>>

\* pthread_mutex_lock(&stage->outputs_mutex)
obs_stage_destroy_lock(t) ==
    LET s == lstage[t] IN
    /\ pc[t] = "d_lock"
    /\ outputs_mutex[s] = NULL
    /\ outputs_mutex' = [outputs_mutex EXCEPT ![s] = t]
    /\ lidx' = [lidx EXCEPT ![t] = 1]
    /\ pc' = [pc EXCEPT ![t] = "d_outputs"]
    /\ UNCHANGED <<stageVars, regVars, ctlVars, outVars, stages_mutex, sigs,
                   stk, lstage, lout, lnext, lname, res, ownVars, hist>>

\* One round of the loop over stage->outputs: stop the output if it is active
\* and release it; after the last one da_free and unlock.
obs_stage_destroy_outputs(t) ==
    LET s == lstage[t]
        i == lidx[t]
    IN
    /\ pc[t] = "d_outputs"
    /\ IF i <= Len(outputs[s])
       THEN LET o == outputs[s][i] IN
            /\ oactive' = IF obs_output_active(o) THEN obs_output_stop(oactive, o) ELSE oactive
            /\ orefs' = obs_output_release(orefs, o)
            /\ lidx' = [lidx EXCEPT ![t] = i + 1]
            /\ UNCHANGED <<outputs, outputs_mutex, pc>>
       ELSE /\ outputs' = [outputs EXCEPT ![s] = <<>>]
            /\ outputs_mutex' = [outputs_mutex EXCEPT ![s] = NULL]
            /\ pc' = [pc EXCEPT ![t] = "d_canvas"]
            /\ UNCHANGED <<oactive, orefs, lidx>>
    /\ UNCHANGED <<mem, sname, sflags, spriv, video, canvas, cname, regVars, ctlVars, oext,
                   stages_mutex, sigs, stk, lstage, lout, lnext, lname, res, ownVars, hist>>

\* obs_canvas_release(stage->canvas); stage->canvas = NULL
obs_stage_destroy_canvas(t) ==
    LET s == lstage[t] IN
    /\ pc[t] = "d_canvas"
    /\ canvas' = [canvas EXCEPT ![s] = IF @ = "bound" THEN "released" ELSE @]
    /\ pc' = [pc EXCEPT ![t] = "d_unlink"]
    /\ UNCHANGED <<mem, sname, sflags, spriv, video, cname, outputs, regVars, ctlVars, outVars,
                   mtxVars, sigs, stk, lstage, lout, lidx, lnext, lname, res, ownVars, hist>>

\* The unlink that leaves the back pointer of the next stage as it was.
unlink_forward_only(s) ==
    /\ prev_next' = prev_next
    /\ IF prev_next[s] = 0
       THEN first_stage' = nxt[s] /\ nxt' = nxt
       ELSE nxt' = [nxt EXCEPT ![prev_next[s]] = nxt[s]] /\ first_stage' = first_stage

\* The unlink of obs_stage_destroy, on the list as it is:
\*   if (stage->next) stage->next->prev_next = stage->prev_next;
\*   *stage->prev_next = stage->next;
unlink(s) ==
    /\ prev_next' = IF nxt[s] # NULL THEN [prev_next EXCEPT ![nxt[s]] = prev_next[s]]
                    ELSE prev_next
    /\ IF prev_next[s] = 0
       THEN first_stage' = nxt[s] /\ nxt' = nxt
       ELSE nxt' = [nxt EXCEPT ![prev_next[s]] = nxt[s]] /\ first_stage' = first_stage

\* lock stages_mutex, unlink, unlock: one step, nobody walks the list meanwhile.
obs_stage_destroy_unlink(t) ==
    LET s == lstage[t] IN
    /\ pc[t] = "d_unlink"
    /\ CanLock(stages_mutex, t)
    /\ unlink(s)
    /\ pc' = [pc EXCEPT ![t] = "d_free"]
    /\ UNCHANGED <<stageVars, ctlVars, outVars, mtxVars, sigs,
                   stk, lstage, lout, lidx, lnext, lname, res, ownVars, hist>>

\* pthread_mutex_destroy, obs_context_data_free, bfree(stage); return to the caller.
obs_stage_destroy_free(t) ==
    LET s == lstage[t] IN
    /\ pc[t] = "d_free"
    /\ mem' = [mem EXCEPT ![s] = "freed"]
    /\ pc' = [pc EXCEPT ![t] = Head(stk[t])]
    /\ stk' = [stk EXCEPT ![t] = Tail(stk[t])]
    /\ UNCHANGED <<sname, sflags, spriv, video, canvas, cname, outputs, regVars, ctlVars, outVars,
                   mtxVars, sigs, lstage, lout, lidx, lnext, lname, res, ownVars, hist>>

obs_stage_destroy(t) ==
    \/ obs_stage_destroy_signal(t)
    \/ obs_stage_destroy_lock(t)
    \/ obs_stage_destroy_outputs(t)
    \/ obs_stage_destroy_canvas(t)
    \/ obs_stage_destroy_unlink(t)
    \/ obs_stage_destroy_free(t)

\* ------------------------------------------------ weak handles
\* obs_stage_get_ref(stage): a caller that owns a reference takes another one
\* and hands it to thread u.  It goes through the stage's control block.
get_ref_call(t, s, u, op) ==
    LET r == obs_weak_ref_get_ref(refs[s]) IN
    /\ mem[s] = "live"
    /\ ctl[s] = "live"
    /\ refs' = [refs EXCEPT ![s] = r[1]]
    /\ owned' = IF r[2] THEN [owned EXCEPT ![u][s] = @ + 1] ELSE owned
    /\ res' = [res EXCEPT ![t] = Result(op, s, NULL, IF r[2] THEN s ELSE NULL)]

obs_stage_get_ref(t, s, u) ==
    /\ pc[t] = "idle"
    /\ owned[t][s] > 0
    /\ refs[s] < MaxRefs
    /\ get_ref_call(t, s, u, "get_ref")
    /\ pc' = [pc EXCEPT ![t] = "done"]
    /\ UNCHANGED <<stageVars, regVars, weak_refs, ctl, outVars, mtxVars, sigs,
                   stk, lstage, lout, lidx, lnext, lname, wowned, hist>>

\* obs_stage_get_weak_stage(stage): obs_weak_stage_addref on the control block.
obs_stage_get_weak_stage(t, s) ==
    /\ pc[t] = "idle"
    /\ owned[t][s] > 0
    /\ mem[s] = "live"
    /\ ctl[s] = "live"
    /\ weak_refs[s] < MaxRefs
    /\ weak_refs' = [weak_refs EXCEPT ![s] = obs_weak_ref_addref(@)]
    /\ wowned' = [wowned EXCEPT ![t][s] = @ + 1]
    /\ res' = [res EXCEPT ![t] = Result("get_weak_stage", s, NULL, s)]
    /\ pc' = [pc EXCEPT ![t] = "done"]
    /\ UNCHANGED <<stageVars, regVars, refs, ctl, outVars, mtxVars, sigs,
                   stk, lstage, lout, lidx, lnext, lname, owned, hist>>

\* obs_weak_stage_addref(weak) by the holder of a weak handle.
obs_weak_stage_addref(t, s) ==
    /\ pc[t] = "idle"
    /\ wowned[t][s] > 0
    /\ ctl[s] = "live"
    /\ weak_refs[s] < MaxRefs
    /\ weak_refs' = [weak_refs EXCEPT ![s] = obs_weak_ref_addref(@)]
    /\ wowned' = [wowned EXCEPT ![t][s] = @ + 1]
    /\ res' = [res EXCEPT ![t] = Result("weak_addref", s, NULL, "void")]
    /\ pc' = [pc EXCEPT ![t] = "done"]
    /\ UNCHANGED <<stageVars, regVars, refs, ctl, outVars, mtxVars, sigs,
                   stk, lstage, lout, lidx, lnext, lname, owned, hist>>

\* obs_weak_stage_release(weak) by the holder of a weak handle.
obs_weak_stage_release(t, s) ==
    /\ pc[t] = "idle"
    /\ wowned[t][s] > 0
    /\ weak_release(s)
    /\ wowned' = [wowned EXCEPT ![t][s] = @ - 1]
    /\ res' = [res EXCEPT ![t] = Result("weak_release", s, NULL, "void")]
    /\ pc' = [pc EXCEPT ![t] = "done"]
    /\ UNCHANGED <<stageVars, regVars, refs, outVars, mtxVars, sigs,
                   stk, lstage, lout, lidx, lnext, lname, owned>>

\* obs_weak_stage_get_stage that returns weak->stage without looking at the
\* result of the promotion.
obs_weak_stage_get_stage_unchecked(t, s) ==
    LET r == obs_weak_ref_get_ref(refs[s]) IN
    /\ pc[t] = "idle"
    /\ wowned[t][s] > 0
    /\ ctl[s] = "live"
    /\ refs[s] < MaxRefs
    /\ refs' = [refs EXCEPT ![s] = r[1]]
    /\ owned' = [owned EXCEPT ![t][s] = @ + 1]
    /\ res' = [res EXCEPT ![t] = Result("weak_get_stage", s, NULL, s)]
    /\ pc' = [pc EXCEPT ![t] = "done"]
    /\ UNCHANGED <<stageVars, regVars, weak_refs, ctl, outVars, mtxVars, sigs,
                   stk, lstage, lout, lidx, lnext, lname, wowned, hist>>

\* obs_weak_stage_get_stage(weak): weak->stage if the promotion succeeds.
obs_weak_stage_get_stage(t, s) ==
    LET r == obs_weak_ref_get_ref(refs[s]) IN
    /\ pc[t] = "idle"
    /\ wowned[t][s] > 0
    /\ ctl[s] = "live"
    /\ refs[s] < MaxRefs
    /\ refs' = [refs EXCEPT ![s] = r[1]]
    /\ owned' = IF r[2] THEN [owned EXCEPT ![t][s] = @ + 1] ELSE owned
    /\ res' = [res EXCEPT ![t] = Result("weak_get_stage", s, NULL, IF r[2] THEN s ELSE NULL)]
    /\ pc' = [pc EXCEPT ![t] = "done"]
    /\ UNCHANGED <<stageVars, regVars, weak_refs, ctl, outVars, mtxVars, sigs,
                   stk, lstage, lout, lidx, lnext, lname, wowned, hist>>

\* ------------------------------------------------ obs_get_stage_by_name
\* The argument check and pthread_mutex_lock(&obs->data.stages_mutex).
obs_get_stage_by_name_lock(t, name) ==
    /\ pc[t] = "idle"
    /\ IF name \in {"null", ""}
       THEN /\ res' = [res EXCEPT ![t] = Result("by_name", NULL, NULL, NULL)]
            /\ pc' = [pc EXCEPT ![t] = "done"]
            /\ UNCHANGED <<stages_mutex, lstage, lname>>
       ELSE /\ \A s \in Stages : refs[s] < MaxRefs
            /\ CanLock(stages_mutex, t)
            /\ stages_mutex' = Lock(stages_mutex, t)
            /\ lstage' = [lstage EXCEPT ![t] = first_stage]
            /\ lname' = [lname EXCEPT ![t] = name]
            /\ pc' = [pc EXCEPT ![t] = "bn_walk"]
            /\ res' = res
    /\ UNCHANGED <<stageVars, regVars, ctlVars, outVars, outputs_mutex, sigs,
                   stk, lout, lidx, lnext, ownVars, hist>>

\* obs_get_stage_by_name that returns the matching stage without taking a
\* reference to it.
obs_get_stage_by_name_walk_noref(t) ==
    LET s == lstage[t] IN
    /\ pc[t] = "bn_walk"
    /\ IF s = NULL
       THEN /\ stages_mutex' = Unlock(stages_mutex)
            /\ pc' = [pc EXCEPT ![t] = "done"]
            /\ res' = [res EXCEPT ![t] = Result("by_name", NULL, NULL, NULL)]
            /\ UNCHANGED <<refs, owned, lstage, hist>>
       ELSE IF mem[s] # "live"
       THEN /\ hist' = [hist EXCEPT !.uaf[t] = "by_name"]
            /\ pc' = [pc EXCEPT ![t] = "ub"]
            /\ UNCHANGED <<refs, owned, stages_mutex, lstage, res>>
       ELSE IF sname[s] = lname[t]
       THEN /\ res' = [res EXCEPT ![t] = Result("by_name", s, NULL, s)]
            /\ stages_mutex' = Unlock(stages_mutex)
            /\ pc' = [pc EXCEPT ![t] = "done"]
            /\ UNCHANGED <<refs, owned, lstage, hist>>
       ELSE /\ lstage' = [lstage EXCEPT ![t] = nxt[s]]
            /\ UNCHANGED <<refs, owned, stages_mutex, pc, res, hist>>
    /\ UNCHANGED <<stageVars, regVars, weak_refs, ctl, outVars, outputs_mutex, sigs,
                   stk, lout, lidx, lnext, lname, wowned>>

\* One round of the walk: the end of the list returns NULL; a match is promoted
\* with obs_stage_get_ref before the mutex is released; otherwise the walk
\* moves to stage->next.  Reading a stage whose memory was freed is undefined:
\* it is recorded and the thread stops.
obs_get_stage_by_name_walk(t) ==
    LET s == lstage[t] IN
    /\ pc[t] = "bn_walk"
    /\ IF s = NULL
       THEN /\ stages_mutex' = Unlock(stages_mutex)
            /\ pc' = [pc EXCEPT ![t] = "done"]
            /\ res' = [res EXCEPT ![t] = Result("by_name", NULL, NULL, NULL)]
            /\ UNCHANGED <<refs, owned, lstage, hist>>
       ELSE IF mem[s] # "live"
       THEN /\ hist' = [hist EXCEPT !.uaf[t] = "by_name"]
            /\ pc' = [pc EXCEPT ![t] = "ub"]
            /\ UNCHANGED <<refs, owned, stages_mutex, lstage, res>>
       ELSE IF sname[s] = lname[t]
       THEN /\ get_ref_call(t, s, t, "by_name")
            /\ stages_mutex' = Unlock(stages_mutex)
            /\ pc' = [pc EXCEPT ![t] = "done"]
            /\ UNCHANGED <<lstage, hist>>
       ELSE /\ lstage' = [lstage EXCEPT ![t] = nxt[s]]
            /\ UNCHANGED <<refs, owned, stages_mutex, pc, res, hist>>
    /\ UNCHANGED <<stageVars, regVars, weak_refs, ctl, outVars, outputs_mutex, sigs,
                   stk, lout, lidx, lnext, lname, wowned>>

\* ------------------------------------------------ obs_enum_stages
RegistryFrom(s) ==
    LET Walk[x \in Stages \cup {NULL}, n \in 0..NStages] ==
            IF x = NULL \/ n = 0 THEN <<>> ELSE <<x>> \o Walk[nxt[x], n - 1]
    IN  Walk[s, NStages]

\* The stages reached from first_stage by next, in order.
Registry == RegistryFrom(first_stage)

\* pthread_mutex_lock(&obs->data.stages_mutex); stage = first_stage
obs_enum_stages_lock(t) ==
    /\ pc[t] = "idle"
    /\ CanLock(stages_mutex, t)
    /\ stages_mutex' = Lock(stages_mutex, t)
    /\ lstage' = [lstage EXCEPT ![t] = first_stage]
    /\ pc' = [pc EXCEPT ![t] = "enum_loop"]
    /\ hist' = [hist EXCEPT !.enumStart[t] = Registry, !.visited[t] = <<>>,
                            !.cbDestroyed[t] = {}, !.cbStopped[t] = FALSE]
    /\ UNCHANGED <<stageVars, regVars, ctlVars, outVars, outputs_mutex, sigs,
                   stk, lout, lidx, lnext, lname, res, ownVars>>

\* while (stage) { next = stage->next; ... }, and the unlock after the loop.
\* Reading a stage whose memory was freed is undefined: it is recorded and the
\* thread stops.
obs_enum_stages_loop(t) ==
    LET s == lstage[t] IN
    /\ pc[t] = "enum_loop"
    /\ IF s = NULL
       THEN /\ stages_mutex' = Unlock(stages_mutex)
            /\ pc' = [pc EXCEPT ![t] = "done"]
            /\ res' = [res EXCEPT ![t] = Result("enum", NULL, NULL, "void")]
            /\ UNCHANGED <<lnext, hist>>
       ELSE IF mem[s] # "live"
       THEN /\ hist' = [hist EXCEPT !.uaf[t] = "enum"]
            /\ pc' = [pc EXCEPT ![t] = "ub"]
            /\ UNCHANGED <<stages_mutex, res, lnext>>
       ELSE /\ lnext' = [lnext EXCEPT ![t] = nxt[s]]
            /\ pc' = [pc EXCEPT ![t] = "enum_cb"]
            /\ UNCHANGED <<stages_mutex, res, hist>>
    /\ UNCHANGED <<stageVars, regVars, ctlVars, outVars, outputs_mutex, sigs,
                   stk, lstage, lout, lidx, lname, ownVars>>

\* The callback step of a walk that ignores a false return: the walk goes on
\* to the next stage.
obs_enum_stages_callback_no_break(t) ==
    LET s == lstage[t] IN
    /\ pc[t] = "enum_cb"
    /\ \/ /\ pc' = [pc EXCEPT ![t] = "enum_next"]
          /\ hist' = [hist EXCEPT !.visited[t] = Append(@, s)]
          /\ UNCHANGED <<refs, owned, stk, lstage, res, stages_mutex>>
       \/ /\ pc' = [pc EXCEPT ![t] = "enum_next"]
          /\ hist' = [hist EXCEPT !.visited[t] = Append(@, s), !.cbStopped[t] = TRUE]
          /\ UNCHANGED <<refs, owned, stk, lstage, res, stages_mutex>>
       \/ /\ owned[t][s] > 0
          /\ release_call(t, s, <<"enum_next">> \o stk[t])
          /\ hist' = [hist EXCEPT !.visited[t] = Append(@, s),
                                  !.zeroBy[s] = IF refs[s] = 1 THEN @ \cup {t} ELSE @,
                                  !.cbDestroyed[t] = IF refs[s] = 1 THEN @ \cup {s} ELSE @]
          /\ UNCHANGED stages_mutex
    /\ UNCHANGED <<stageVars, regVars, weak_refs, ctl, outVars, outputs_mutex, sigs,
                   lout, lidx, lnext, lname, wowned>>

\* enum_proc(param, stage): the callback keeps going, stops the walk, or
\* releases a reference it owns on the stage it was called with (which
\* destroys the stage when it is the last one) and keeps going.
obs_enum_stages_callback(t) ==
    LET s == lstage[t] IN
    /\ pc[t] = "enum_cb"
    /\ \/ /\ pc' = [pc EXCEPT ![t] = "enum_next"]
          /\ hist' = [hist EXCEPT !.visited[t] = Append(@, s)]
          /\ UNCHANGED <<refs, owned, stk, lstage, res, stages_mutex>>
       \/ /\ stages_mutex' = Unlock(stages_mutex)
          /\ pc' = [pc EXCEPT ![t] = "done"]
          /\ res' = [res EXCEPT ![t] = Result("enum", NULL, NULL, "void")]
          /\ hist' = [hist EXCEPT !.visited[t] = Append(@, s), !.cbStopped[t] = TRUE]
          /\ UNCHANGED <<refs, owned, stk, lstage>>
       \/ /\ owned[t][s] > 0
          /\ release_call(t, s, <<"enum_next">> \o stk[t])
          /\ hist' = [hist EXCEPT !.visited[t] = Append(@, s),
                                  !.zeroBy[s] = IF refs[s] = 1 THEN @ \cup {t} ELSE @,
                                  !.cbDestroyed[t] = IF refs[s] = 1 THEN @ \cup {s} ELSE @]
          /\ UNCHANGED stages_mutex
    /\ UNCHANGED <<stageVars, regVars, weak_refs, ctl, outVars, outputs_mutex, sigs,
                   lout, lidx, lnext, lname, wowned>>

\* The walk that reads stage->next after the callback instead of the pointer
\* captured before it.
obs_enum_stages_next_late(t) ==
    /\ pc[t] = "enum_next"
    /\ IF mem[lstage[t]] # "live"
       THEN /\ hist' = [hist EXCEPT !.uaf[t] = "enum"]
            /\ pc' = [pc EXCEPT ![t] = "ub"]
            /\ UNCHANGED lstage
       ELSE /\ lstage' = [lstage EXCEPT ![t] = nxt[lstage[t]]]
            /\ pc' = [pc EXCEPT ![t] = "enum_loop"]
            /\ UNCHANGED hist
    /\ UNCHANGED <<stageVars, regVars, ctlVars, outVars, mtxVars, sigs,
                   stk, lout, lidx, lnext, lname, res, ownVars>>

\* stage = next
obs_enum_stages_next(t) ==
    /\ pc[t] = "enum_next"
    /\ lstage' = [lstage EXCEPT ![t] = lnext[t]]
    /\ pc' = [pc EXCEPT ![t] = "enum_loop"]
    /\ UNCHANGED <<stageVars, regVars, ctlVars, outVars, mtxVars, sigs,
                   stk, lout, lidx, lnext, lname, res, ownVars, hist>>

obs_enum_stages(t) ==
    \/ obs_enum_stages_lock(t)
    \/ obs_enum_stages_loop(t)
    \/ obs_enum_stages_callback(t)
    \/ obs_enum_stages_next(t)

\* ------------------------------------------------ obs_stage_add_output
\* The lock of obs_stage_add_output without waiting for the mutex.
obs_stage_add_output_lock_nomutex(t, s, o) ==
    /\ pc[t] = "idle"
    /\ hist.calls < MaxCalls
    /\ hist' = [hist EXCEPT !.calls = @ + 1]
    /\ owned[t][s] > 0
    /\ IF o = NULL
       THEN /\ pc' = [pc EXCEPT ![t] = "done"]
            /\ res' = [res EXCEPT ![t] = Result("add_output", s, o, FALSE)]
            /\ UNCHANGED outputs_mutex
       ELSE /\ oext[o] > 0
            /\ outputs_mutex' = [outputs_mutex EXCEPT ![s] = t]
            /\ pc' = [pc EXCEPT ![t] = "ao_scan"]
            /\ res' = res
    /\ lstage' = [lstage EXCEPT ![t] = s]
    /\ lout' = [lout EXCEPT ![t] = o]
    /\ UNCHANGED <<stageVars, regVars, ctlVars, outVars, stages_mutex, sigs,
                   stk, lidx, lnext, lname, ownVars>>

\* The argument check and pthread_mutex_lock(&stage->outputs_mutex).  The
\* caller owns a reference to the stage and passes an output it holds.
obs_stage_add_output_lock(t, s, o) ==
    /\ pc[t] = "idle"
    /\ hist.calls < MaxCalls
    /\ hist' = [hist EXCEPT !.calls = @ + 1]
    /\ owned[t][s] > 0
    /\ IF o = NULL
       THEN /\ pc' = [pc EXCEPT ![t] = "done"]
            /\ res' = [res EXCEPT ![t] = Result("add_output", s, o, FALSE)]
            /\ UNCHANGED outputs_mutex
       ELSE /\ oext[o] > 0
            /\ outputs_mutex[s] = NULL
            /\ outputs_mutex' = [outputs_mutex EXCEPT ![s] = t]
            /\ pc' = [pc EXCEPT ![t] = "ao_scan"]
            /\ res' = res
    /\ lstage' = [lstage EXCEPT ![t] = s]
    /\ lout' = [lout EXCEPT ![t] = o]
    /\ UNCHANGED <<stageVars, regVars, ctlVars, outVars, stages_mutex, sigs,
                   stk, lidx, lnext, lname, ownVars>>

\* The scan of obs_stage_add_output that finds nothing.
obs_stage_add_output_scan_blind(t) ==
    /\ pc[t] = "ao_scan"
    /\ pc' = [pc EXCEPT ![t] = "ao_push"]
    /\ UNCHANGED <<stageVars, regVars, ctlVars, outVars, mtxVars, sigs,
                   stk, lstage, lout, lidx, lnext, lname, res, ownVars, hist>>

\* The scan for the output: when it is already there, unlock and return false.
obs_stage_add_output_scan(t) ==
    LET s == lstage[t]
        o == lout[t]
    IN
    /\ pc[t] = "ao_scan"
    /\ IF \E i \in 1..Len(outputs[s]) : outputs[s][i] = o
       THEN /\ outputs_mutex' = [outputs_mutex EXCEPT ![s] = NULL]
            /\ pc' = [pc EXCEPT ![t] = "done"]
            /\ res' = [res EXCEPT ![t] = Result("add_output", s, o, FALSE)]
       ELSE /\ pc' = [pc EXCEPT ![t] = "ao_push"]
            /\ UNCHANGED <<outputs_mutex, res>>
    /\ UNCHANGED <<stageVars, regVars, ctlVars, outVars, stages_mutex, sigs,
                   stk, lstage, lout, lidx, lnext, lname, ownVars, hist>>

\* The push that signals output_add itself, before the unlock.
obs_stage_add_output_push_signals(t) ==
    LET s == lstage[t]
        o == lout[t]
        r == obs_output_get_ref(orefs, o)
    IN
    /\ pc[t] = "ao_push"
    /\ orefs' = r[1]
    /\ IF r[2] = NULL
       THEN /\ pc' = [pc EXCEPT ![t] = "done"]
            /\ res' = [res EXCEPT ![t] = Result("add_output", s, o, FALSE)]
            /\ outputs_mutex' = [outputs_mutex EXCEPT ![s] = NULL]
            /\ UNCHANGED <<outputs, sigs>>
       ELSE /\ outputs' = [outputs EXCEPT ![s] = da_push_back(@, r[2])]
            /\ sigs' = stage_dosignal_output(sigs, s, "output_add", o)
            /\ outputs_mutex' = [outputs_mutex EXCEPT ![s] = NULL]
            /\ pc' = [pc EXCEPT ![t] = "done"]
            /\ res' = [res EXCEPT ![t] = Result("add_output", s, o, TRUE)]
    /\ UNCHANGED <<mem, sname, sflags, spriv, video, canvas, cname, regVars, ctlVars, oactive, oext,
                   stages_mutex, stk, lstage, lout, lidx, lnext, lname, ownVars, hist>>

\* obs_output_get_ref; on NULL unlock and return false, otherwise
\* da_push_back of the reference and unlock.
obs_stage_add_output_push(t) ==
    LET s == lstage[t]
        o == lout[t]
        r == obs_output_get_ref(orefs, o)
    IN
    /\ pc[t] = "ao_push"
    /\ orefs' = r[1]
    /\ outputs_mutex' = [outputs_mutex EXCEPT ![s] = NULL]
    /\ IF r[2] = NULL
       THEN /\ pc' = [pc EXCEPT ![t] = "done"]
            /\ res' = [res EXCEPT ![t] = Result("add_output", s, o, FALSE)]
            /\ UNCHANGED outputs
       ELSE /\ outputs' = [outputs EXCEPT ![s] = da_push_back(@, r[2])]
            /\ pc' = [pc EXCEPT ![t] = "ao_signal"]
            /\ res' = res
    /\ UNCHANGED <<mem, sname, sflags, spriv, video, canvas, cname, regVars, ctlVars, oactive, oext,
                   stages_mutex, sigs, stk, lstage, lout, lidx, lnext, lname, ownVars, hist>>

\* stage_dosignal_output(stage, "output_add", output); return true
obs_stage_add_output_signal(t) ==
    LET s == lstage[t]
        o == lout[t]
    IN
    /\ pc[t] = "ao_signal"
    /\ sigs' = stage_dosignal_output(sigs, s, "output_add", o)
    /\ pc' = [pc EXCEPT ![t] = "done"]
    /\ res' = [res EXCEPT ![t] = Result("add_output", s, o, TRUE)]
    /\ UNCHANGED <<stageVars, regVars, ctlVars, outVars, mtxVars,
                   stk, lstage, lout, lidx, lnext, lname, ownVars, hist>>

obs_stage_add_output(t) ==
    \/ obs_stage_add_output_scan(t)
    \/ obs_stage_add_output_push(t)
    \/ obs_stage_add_output_signal(t)

\* ------------------------------------------------ obs_stage_remove_output
\* The argument check and pthread_mutex_lock(&stage->outputs_mutex).
obs_stage_remove_output_lock(t, s, o) ==
    /\ pc[t] = "idle"
    /\ hist.calls < MaxCalls
    /\ hist' = [hist EXCEPT !.calls = @ + 1]
    /\ owned[t][s] > 0
    /\ IF o = NULL
       THEN /\ pc' = [pc EXCEPT ![t] = "done"]
            /\ res' = [res EXCEPT ![t] = Result("remove_output", s, o, FALSE)]
            /\ UNCHANGED outputs_mutex
       ELSE /\ outputs_mutex[s] = NULL
            /\ outputs_mutex' = [outputs_mutex EXCEPT ![s] = t]
            /\ pc' = [pc EXCEPT ![t] = "ro_scan"]
            /\ res' = res
    /\ lstage' = [lstage EXCEPT ![t] = s]
    /\ lout' = [lout EXCEPT ![t] = o]
    /\ UNCHANGED <<stageVars, regVars, ctlVars, outVars, stages_mutex, sigs,
                   stk, lidx, lnext, lname, ownVars>>

\* The scan of obs_stage_remove_output that does not stop an active output.
obs_stage_remove_output_scan_nostop(t) ==
    LET s == lstage[t]
        o == lout[t]
        i == IndexOf(outputs[s], o)
    IN
    /\ pc[t] = "ro_scan"
    /\ IF i = 0
       THEN /\ outputs_mutex' = [outputs_mutex EXCEPT ![s] = NULL]
            /\ pc' = [pc EXCEPT ![t] = "done"]
            /\ res' = [res EXCEPT ![t] = Result("remove_output", s, o, FALSE)]
            /\ UNCHANGED <<oactive, lidx>>
       ELSE /\ lidx' = [lidx EXCEPT ![t] = i]
            /\ pc' = [pc EXCEPT ![t] = "ro_signal"]
            /\ UNCHANGED <<outputs_mutex, res, oactive>>
    /\ UNCHANGED <<stageVars, regVars, ctlVars, orefs, oext, stages_mutex, sigs,
                   stk, lstage, lout, lnext, lname, ownVars, hist>>

\* The scan for the output: when it is not there, unlock and return false; at
\* its index i, stop it if it is active.
obs_stage_remove_output_scan(t) ==
    LET s == lstage[t]
        o == lout[t]
        i == IndexOf(outputs[s], o)
    IN
    /\ pc[t] = "ro_scan"
    /\ IF i = 0
       THEN /\ outputs_mutex' = [outputs_mutex EXCEPT ![s] = NULL]
            /\ pc' = [pc EXCEPT ![t] = "done"]
            /\ res' = [res EXCEPT ![t] = Result("remove_output", s, o, FALSE)]
            /\ UNCHANGED <<oactive, lidx, hist>>
       ELSE /\ oactive' = IF obs_output_active(o) THEN obs_output_stop(oactive, o) ELSE oactive
            /\ hist' = [hist EXCEPT !.stopped[t] = obs_output_active(o)]
            /\ lidx' = [lidx EXCEPT ![t] = i]
            /\ pc' = [pc EXCEPT ![t] = "ro_signal"]
            /\ UNCHANGED <<outputs_mutex, res>>
    /\ UNCHANGED <<stageVars, regVars, ctlVars, orefs, oext, stages_mutex, sigs,
                   stk, lstage, lout, lnext, lname, ownVars>>

\* stage_dosignal_output(stage, "output_remove", output), with the mutex held.
obs_stage_remove_output_signal(t) ==
    /\ pc[t] = "ro_signal"
    /\ sigs' = stage_dosignal_output(sigs, lstage[t], "output_remove", lout[t])
    /\ pc' = [pc EXCEPT ![t] = "ro_release"]
    /\ UNCHANGED <<stageVars, regVars, ctlVars, outVars, mtxVars,
                   stk, lstage, lout, lidx, lnext, lname, res, ownVars, hist>>

\* The release of obs_stage_remove_output done twice.
obs_stage_remove_output_release_twice(t) ==
    /\ pc[t] = "ro_release"
    /\ orefs' = obs_output_release(obs_output_release(orefs, lout[t]), lout[t])
    /\ hist' = [hist EXCEPT !.dropped[t] = (orefs'[lout[t]] <= 0)]
    /\ pc' = [pc EXCEPT ![t] = "ro_erase"]
    /\ UNCHANGED <<stageVars, regVars, ctlVars, oactive, oext, mtxVars, sigs,
                   stk, lstage, lout, lidx, lnext, lname, res, ownVars>>

\* obs_output_release(output): when this was the last reference the output is
\* torn down and freed here, by this thread.
obs_stage_remove_output_release(t) ==
    /\ pc[t] = "ro_release"
    /\ orefs' = obs_output_release(orefs, lout[t])
    /\ hist' = [hist EXCEPT !.dropped[t] = (orefs'[lout[t]] = 0)]
    /\ pc' = [pc EXCEPT ![t] = "ro_erase"]
    /\ UNCHANGED <<stageVars, regVars, ctlVars, oactive, oext, mtxVars, sigs,
                   stk, lstage, lout, lidx, lnext, lname, res, ownVars>>

\* da_erase(stage->outputs, i); unlock; blog(..., obs_output_get_name(output));
\* return true.  The log line reads the output after obs_output_release: when
\* that release freed the output the read is of freed memory, and the call
\* either goes on with what it read or does not return.
obs_stage_remove_output_erase(t) ==
    LET s == lstage[t] IN
    /\ pc[t] = "ro_erase"
    /\ outputs' = [outputs EXCEPT ![s] = da_erase(@, lidx[t])]
    /\ outputs_mutex' = [outputs_mutex EXCEPT ![s] = NULL]
    /\ \/ /\ pc' = [pc EXCEPT ![t] = "done"]
          /\ res' = [res EXCEPT ![t] = Result("remove_output", s, lout[t], TRUE)]
          /\ hist' = hist
       \/ /\ hist.dropped[t]
          /\ pc' = [pc EXCEPT ![t] = "ub"]
          /\ hist' = [hist EXCEPT !.uaf[t] = "remove_output"]
          /\ res' = res
    /\ UNCHANGED <<mem, sname, sflags, spriv, video, canvas, cname, regVars, ctlVars, outVars,
                   stages_mutex, sigs, stk, lstage, lout, lidx, lnext, lname, ownVars>>

obs_stage_remove_output(t) ==
    \/ obs_stage_remove_output_scan(t)
    \/ obs_stage_remove_output_signal(t)
    \/ obs_stage_remove_output_release(t)
    \/ obs_stage_remove_output_erase(t)

\* An outside holder of a reference to the output lets it go
\* (obs_output_release); the teardown of the output begins with its last
\* reference, and its memory outlasts the calls that were handed the output
\* while it was held.
output_release_external(o) ==
    /\ oext[o] > 0
    /\ oext' = [oext EXCEPT ![o] = @ - 1]
    /\ orefs' = obs_output_release(orefs, o)
    /\ oactive' = IF orefs[o] = 1 THEN [oactive EXCEPT ![o] = FALSE] ELSE oactive
    /\ UNCHANGED <<stageVars, regVars, ctlVars, mtxVars, sigs, thrVars, ownVars, hist>>

\* ------------------------------------------------ obs_stage_set_name
\* The checks of obs_stage_set_name without the one for OBS_STAGE_MAIN.
obs_stage_set_name_check_nomain(t, s, name) ==
    /\ pc[t] = "idle"
    /\ s # NULL => owned[t][s] > 0
    /\ hist.calls < MaxCalls
    /\ hist' = [hist EXCEPT !.calls = @ + 1]
    /\ lstage' = [lstage EXCEPT ![t] = s]
    /\ lname' = [lname EXCEPT ![t] = name]
    /\ IF s = NULL \/ name = "null" \/ name = ""
       THEN /\ pc' = [pc EXCEPT ![t] = "done"]
            /\ res' = [res EXCEPT ![t] = Result("set_name", s, NULL, "void")]
       ELSE IF name = sname[s]
       THEN /\ pc' = [pc EXCEPT ![t] = "done"]
            /\ res' = [res EXCEPT ![t] = Result("set_name", s, NULL, "void")]
       ELSE /\ pc' = [pc EXCEPT ![t] = "sn_apply"]
            /\ res' = res
    /\ UNCHANGED <<stageVars, regVars, ctlVars, outVars, mtxVars, sigs,
                   stk, lout, lidx, lnext, ownVars>>

\* The checks of obs_stage_set_name ("null" stands for a NULL name):
\*   if (!stage || !name || !*name) return;
\*   if (stage->flags & OBS_STAGE_MAIN) return;
\*   if (strcmp(name, stage->context.name) == 0) return;
obs_stage_set_name_check(t, s, name) ==
    /\ pc[t] = "idle"
    /\ s # NULL => owned[t][s] > 0
    /\ hist.calls < MaxCalls
    /\ hist' = [hist EXCEPT !.calls = @ + 1]
    /\ lstage' = [lstage EXCEPT ![t] = s]
    /\ lname' = [lname EXCEPT ![t] = name]
    /\ IF s = NULL \/ name = "null" \/ name = ""
       THEN /\ pc' = [pc EXCEPT ![t] = "done"]
            /\ res' = [res EXCEPT ![t] = Result("set_name", s, NULL, "void")]
       ELSE IF OBS_STAGE_MAIN \in sflags[s]
       THEN /\ pc' = [pc EXCEPT ![t] = "done"]
            /\ res' = [res EXCEPT ![t] = Result("set_name", s, NULL, "void")]
       ELSE IF name = sname[s]
       THEN /\ pc' = [pc EXCEPT ![t] = "done"]
            /\ res' = [res EXCEPT ![t] = Result("set_name", s, NULL, "void")]
       ELSE /\ pc' = [pc EXCEPT ![t] = "sn_apply"]
            /\ res' = res
    /\ UNCHANGED <<stageVars, regVars, ctlVars, outVars, mtxVars, sigs,
                   stk, lout, lidx, lnext, ownVars>>

\* The rename of obs_stage_set_name with prev_name read after the name is set.
obs_stage_set_name_apply_lateprev(t) ==
    LET s == lstage[t] IN
    /\ pc[t] = "sn_apply"
    /\ sname' = [sname EXCEPT ![s] = lname[t]]
    /\ cname' = IF canvas[s] = "bound" THEN [cname EXCEPT ![s] = lname[t]] ELSE cname
    /\ sigs' = Emit(sigs, {Signal("stage", "rename", s, NULL, lname[t], lname[t])}
                          \cup (IF ~spriv[s]
                                THEN {Signal("obs", "stage_rename", s, NULL, lname[t], lname[t])}
                                ELSE {}))
    /\ pc' = [pc EXCEPT ![t] = "done"]
    /\ res' = [res EXCEPT ![t] = Result("set_name", s, NULL, "void")]
    /\ UNCHANGED <<mem, sflags, spriv, video, canvas, outputs, regVars, ctlVars, outVars, mtxVars,
                   stk, lstage, lout, lidx, lnext, lname, ownVars, hist>>

\* The rename: prev_name = bstrdup(name); obs_context_data_setname; the canvas
\* is renamed too when there is one; "rename" on the stage's bus and, unless
\* the stage is private, "stage_rename" on the global bus, both with the stage,
\* new_name and prev_name.
obs_stage_set_name_apply(t) ==
    LET s == lstage[t]
        prev_name == sname[s]
        data == [stage |-> s, new_name |-> lname[t], prev_name |-> prev_name]
    IN
    /\ pc[t] = "sn_apply"
    /\ sname' = [sname EXCEPT ![s] = lname[t]]
    /\ cname' = IF canvas[s] = "bound" THEN [cname EXCEPT ![s] = lname[t]] ELSE cname
    /\ sigs' = Emit(sigs, {Signal("stage", "rename", data.stage, NULL, data.new_name, data.prev_name)}
                          \cup (IF ~spriv[s]
                                THEN {Signal("obs", "stage_rename", data.stage, NULL,
                                             data.new_name, data.prev_name)}
                                ELSE {}))
    /\ pc' = [pc EXCEPT ![t] = "done"]
    /\ res' = [res EXCEPT ![t] = Result("set_name", s, NULL, "void")]
    /\ UNCHANGED <<mem, sflags, spriv, video, canvas, outputs, regVars, ctlVars, outVars, mtxVars,
                   stk, lstage, lout, lidx, lnext, lname, ownVars, hist>>

\* ------------------------------------------------ obs_stage_create_internal
StageFlags == {OBS_STAGE_MAIN, OBS_STAGE_MIX_AUDIO, OBS_STAGE_EPHEMERAL}

\* The steps of construction that can fail, "none" for a construction in
\* which none does.
CtorFailures == {"none", "context", "signals", "mutex", "canvas"}

\* The construction that leaves the mutex behind when the canvas fails.
construct_leaky(fail) ==
    IF fail = "context" THEN <<"bzalloc", "bfree">>
    ELSE IF fail = "signals"
    THEN <<"bzalloc", "obs_context_data_init", "obs_context_data_free", "bfree">>
    ELSE IF fail = "mutex"
    THEN <<"bzalloc", "obs_context_data_init", "signal_handler_add_array",
           "obs_context_data_free", "bfree">>
    ELSE IF fail = "canvas"
    THEN <<"bzalloc", "obs_context_data_init", "signal_handler_add_array",
           "pthread_mutex_init", "obs_context_data_free", "bfree">>
    ELSE <<"bzalloc", "obs_context_data_init", "signal_handler_add_array",
           "pthread_mutex_init", "obs_canvas_create_private", "obs_context_init_control">>

\* The calls obs_stage_create_internal makes on the stage's resources up to
\* the link, in order, when the step `fail` fails: each failure branch undoes
\* what was built before it and returns NULL.
construct(fail) ==
    LET a0 == <<"bzalloc">>
        a1 == a0 \o <<"obs_context_data_init">>
        a2 == a1 \o <<"signal_handler_add_array">>
        a3 == a2 \o <<"pthread_mutex_init">>
        a4 == a3 \o <<"obs_canvas_create_private">>
    IN  IF fail = "context" THEN a0 \o <<"bfree">>
        ELSE IF fail = "signals" THEN a1 \o <<"obs_context_data_free", "bfree">>
        ELSE IF fail = "mutex" THEN a2 \o <<"obs_context_data_free", "bfree">>
        ELSE IF fail = "canvas"
        THEN a3 \o <<"pthread_mutex_destroy", "obs_context_data_free", "bfree">>
        ELSE a4 \o <<"obs_context_init_control">>

\* Where a thread stands when it enters obs_stage_create_internal:
\* obs_load_stage reads the record first, the other callers enter at once.
CallSite(op) == IF op = "load_stage" THEN "ld_create" ELSE "idle"

\* The address bzalloc hands out: a stage slot that is not in use.
NewStage == Min({s \in Stages : mem[s] = "none"})

\* obs_stage_create_internal up to the link: the stage is built in private;
\* when a step fails nothing of it is left and the call returns NULL.
obs_stage_create_internal_build(t, name, ovi, flags, private, fail, op) ==
    LET s == NewStage IN
    /\ pc[t] = CallSite(op)
    /\ \E x \in Stages : mem[x] = "none"
    /\ hist.calls < MaxCalls
    /\ hist' = [hist EXCEPT !.calls = @ + 1, !.ctor[t] = construct(fail)]
    /\ lname' = [lname EXCEPT ![t] = name]
    /\ IF fail # "none"
       THEN /\ pc' = [pc EXCEPT ![t] = "done"]
            /\ res' = [res EXCEPT ![t] = Result(op, NULL, NULL, NULL)]
            /\ UNCHANGED <<stageVars, ctlVars, outputs_mutex, owned, lstage>>
       ELSE /\ mem' = [mem EXCEPT ![s] = "live"]
            /\ sflags' = [sflags EXCEPT ![s] = flags]
            /\ sname' = [sname EXCEPT ![s] = name]
            /\ spriv' = [spriv EXCEPT ![s] = private]
            /\ outputs' = [outputs EXCEPT ![s] = <<>>]
            /\ outputs_mutex' = [outputs_mutex EXCEPT ![s] = NULL]
            /\ canvas' = [canvas EXCEPT ![s] = "bound"]
            /\ cname' = [cname EXCEPT ![s] = name]
            /\ video' = [video EXCEPT ![s] = ovi]
            /\ refs' = [refs EXCEPT ![s] = obs_context_init_control.refs]
            /\ weak_refs' = [weak_refs EXCEPT ![s] = obs_context_init_control.weak_refs]
            /\ ctl' = [ctl EXCEPT ![s] = "live"]
            /\ owned' = [owned EXCEPT ![t][s] = 1]
            /\ lstage' = [lstage EXCEPT ![t] = s]
            /\ pc' = [pc EXCEPT ![t] = "c_link"]
            /\ res' = [res EXCEPT ![t] = Result(op, NULL, NULL, NULL)]
    /\ UNCHANGED <<regVars, outVars, stages_mutex, sigs, stk, lout, lidx, lnext, wowned>>

\* The link without a look at the registry mutex.
obs_stage_create_internal_link_nomutex(t) ==
    LET s == lstage[t] IN
    /\ pc[t] = "c_link"
    /\ nxt' = [nxt EXCEPT ![s] = first_stage]
    /\ prev_next' = IF first_stage # NULL
                    THEN [prev_next EXCEPT ![s] = 0, ![first_stage] = s]
                    ELSE [prev_next EXCEPT ![s] = 0]
    /\ first_stage' = s
    /\ pc' = [pc EXCEPT ![t] = "c_signal"]
    /\ UNCHANGED <<stageVars, ctlVars, outVars, mtxVars, sigs,
                   stk, lstage, lout, lidx, lnext, lname, res, ownVars, hist>>

\* The link at the head of the list, under obs->data.stages_mutex
\* (prev_next = 0 stands for &obs->data.first_stage).
obs_stage_create_internal_link(t) ==
    LET s == lstage[t] IN
    /\ pc[t] = "c_link"
    /\ CanLock(stages_mutex, t)
    /\ nxt' = [nxt EXCEPT ![s] = first_stage]
    /\ prev_next' = IF first_stage # NULL
                    THEN [prev_next EXCEPT ![s] = 0, ![first_stage] = s]
                    ELSE [prev_next EXCEPT ![s] = 0]
    /\ first_stage' = s
    /\ pc' = [pc EXCEPT ![t] = "c_signal"]
    /\ UNCHANGED <<stageVars, ctlVars, outVars, mtxVars, sigs,
                   stk, lstage, lout, lidx, lnext, lname, res, ownVars, hist>>

\* if (!private) stage_dosignal(stage, "stage_create", NULL); return stage
obs_stage_create_internal_signal(t) ==
    LET s == lstage[t] IN
    /\ pc[t] = "c_signal"
    /\ sigs' = IF ~spriv[s] THEN stage_dosignal(sigs, s, "stage_create", "") ELSE sigs
    /\ pc' = [pc EXCEPT ![t] = "done"]
    /\ res' = [res EXCEPT ![t] = Result(res[t].op, s, NULL, s)]
    /\ UNCHANGED <<stageVars, regVars, ctlVars, outVars, mtxVars,
                   stk, lstage, lout, lidx, lnext, lname, ownVars, hist>>

obs_stage_create_internal(t) ==
    \/ obs_stage_create_internal_link(t)
    \/ obs_stage_create_internal_signal(t)

\* obs_stage_create: flags &= ~OBS_STAGE_MAIN; a public stage.
obs_stage_create(t, name, ovi, flags, fail) ==
    obs_stage_create_internal_build(t, name, ovi, flags \ {OBS_STAGE_MAIN}, FALSE, fail, "create")

\* obs_stage_create_private: flags &= ~OBS_STAGE_MAIN; a private stage.
obs_stage_create_private(t, name, ovi, flags, fail) ==
    obs_stage_create_internal_build(t, name, ovi, flags \ {OBS_STAGE_MAIN}, TRUE, fail,
                                    "create_private")

\* ------------------------------------------------ initial states
\* The stages were created one after the other by obs_stage_create (each one
\* linked at the head of the registry), stage 1 was given output 1, which is
\* running; the creator of a stage holds its one strong reference.
StageName(s) == IF s = 1 THEN "a" ELSE "b"
Creator(s) == ((s - 1) % NThreads) + 1

\* struct obs_video_info, the fields that obs_save_stage writes.
VideoInfo(bw, bh, ow, oh, num, den) ==
    [base_width |-> bw, base_height |-> bh, output_width |-> ow, output_height |-> oh,
     fps_num |-> num, fps_den |-> den]

\* struct obs_video_info ovi = {0}
VideoZero == VideoInfo(0, 0, 0, 0, 0, 0)

VideoInfos == {VideoInfo(16, 9, 16, 9, 30, 1), VideoInfo(16, 9, 8, 5, 60, 2)}

VideoInit == VideoInfo(16, 9, 16, 9, 30, 1)

\* The video info of a canvas created without one (ovi == NULL).
VideoNone == [none |-> TRUE]

\* ------------------------------------------------ saving / loading
\* The width of the flag bits in the word obs_data_set_int stores.
FlagsToInt(f) ==
    (IF OBS_STAGE_MAIN \in f THEN 1 ELSE 0) + (IF OBS_STAGE_MIX_AUDIO \in f THEN 2 ELSE 0)
        + (IF OBS_STAGE_EPHEMERAL \in f THEN 4 ELSE 0)

IntToFlags(n) ==
    {x \in StageFlags :
        \/ x = OBS_STAGE_MAIN /\ n % 2 = 1
        \/ x = OBS_STAGE_MIX_AUDIO /\ (n \div 2) % 2 = 1
        \/ x = OBS_STAGE_EPHEMERAL /\ (n \div 4) % 2 = 1}

\* An obs_data record is a mapping of keys to values; a NULL obs_data_t *.
DataNull == [null |-> TRUE]

\* obs_data_get_int / obs_data_get_string: a missing key reads as 0 / "".
obs_data_get_int(data, key) == IF key \in DOMAIN data THEN data[key] ELSE 0
obs_data_get_string(data, key) == IF key \in DOMAIN data THEN data[key] ELSE ""

\* obs_stage_get_video_info: false without a stage, a canvas or a video info.
obs_stage_get_video_info(s) ==
    s # NULL /\ canvas[s] = "bound" /\ video[s] # VideoNone

\* What the caller of obs_save_stage could see of the stage when it saved it.
NoSnap == [stage |-> NULL, name |-> "", flags |-> {}, video |-> VideoNone]
Snap(s) == [stage |-> s, name |-> sname[s], flags |-> sflags[s], video |-> video[s]]

\* The record obs_save_stage builds for a stage that is not ephemeral.
save_record(s) ==
    IF obs_stage_get_video_info(s)
    THEN [name |-> sname[s], flags |-> FlagsToInt(sflags[s]),
          base_width |-> video[s].base_width, base_height |-> video[s].base_height,
          output_width |-> video[s].output_width, output_height |-> video[s].output_height,
          fps_num |-> video[s].fps_num, fps_den |-> video[s].fps_den]
    ELSE [name |-> sname[s], flags |-> FlagsToInt(sflags[s])]

\* The record that saves an ephemeral stage all the same.
save_record_anyway(s) == IF s = NULL THEN DataNull ELSE save_record(s)

save_record_checked(s) ==
    IF s = NULL \/ OBS_STAGE_EPHEMERAL \in sflags[s] THEN DataNull ELSE save_record(s)

\* obs_save_stage: NULL for no stage or an ephemeral one, else a new record
\* with the name, the flags and, when there is one, the canvas' video info.
\* The caller holds a reference to the stage and no rename of it is running.
obs_save_stage(t, s) ==
    /\ pc[t] = "idle"
    /\ hist.calls < MaxCalls
    /\ s # NULL => (owned[t][s] > 0 /\ \A u \in Threads : pc[u] = "sn_apply" => lstage[u] # s)
    /\ pc' = [pc EXCEPT ![t] = "done"]
    /\ res' = [res EXCEPT ![t] = Result("save_stage", s, NULL, save_record_checked(s))]
    /\ hist' = [hist EXCEPT !.calls = @ + 1, !.snap[t] = IF s = NULL THEN NoSnap ELSE Snap(s)]
    /\ UNCHANGED <<stageVars, regVars, ctlVars, outVars, mtxVars, sigs,
                   stk, lstage, lout, lidx, lnext, lname, ownVars>>

\* obs_load_stage, entry: NULL for no record.  The record is one the caller
\* was handed by obs_save_stage just before, or one from elsewhere.
obs_load_stage_check(t, data) ==
    /\ \/ pc[t] = "idle" /\ hist.calls < MaxCalls
       \/ pc[t] = "done" /\ res[t].op = "save_stage" /\ data = res[t].val
    /\ IF data = DataNull
       THEN /\ pc' = [pc EXCEPT ![t] = "done"]
            /\ res' = [res EXCEPT ![t] = Result("load_stage", NULL, NULL, NULL)]
       ELSE /\ pc' = [pc EXCEPT ![t] = "ld_create"]
            /\ res' = [res EXCEPT ![t] = Result("load_stage", NULL, NULL, data)]
    /\ UNCHANGED <<stageVars, regVars, ctlVars, outVars, mtxVars, sigs,
                   stk, lstage, lout, lidx, lnext, lname, ownVars, hist>>

\* The flags of a load that keeps the primary bit.
load_flags_kept(data) == IntToFlags(obs_data_get_int(data, "flags"))

\* The flags obs_load_stage passes on: flags &= ~OBS_STAGE_MAIN.
load_flags(data) == IntToFlags(obs_data_get_int(data, "flags")) \ {OBS_STAGE_MAIN}

\* obs_load_stage, the rest: name, flags and the six video fields are read
\* from the record and a public stage is created from them.
obs_load_stage_create(t, fail) ==
    LET data == res[t].val
        ovi == VideoInfo(obs_data_get_int(data, "base_width"),
                         obs_data_get_int(data, "base_height"),
                         obs_data_get_int(data, "output_width"),
                         obs_data_get_int(data, "output_height"),
                         obs_data_get_int(data, "fps_num"),
                         obs_data_get_int(data, "fps_den"))
    IN  /\ pc[t] = "ld_create"
        /\ obs_stage_create_internal_build(t, obs_data_get_string(data, "name"), ovi,
                                           load_flags(data), FALSE, fail, "load_stage")

\* Records that do not come from obs_save_stage: none, one with the primary
\* and the ephemeral bit and no video keys, one with a name only.
DataArgs == {DataNull, [name |-> "b", flags |-> 5], [name |-> "a"]}

obs_load_stage(t) ==
    \/ pc[t] = "idle" /\ \E data \in DataArgs : obs_load_stage_check(t, data)
    \/ pc[t] = "done" /\ res[t].op = "save_stage" /\ obs_load_stage_check(t, res[t].val)
    \/ \E fail \in CtorFailures : obs_load_stage_create(t, fail)

\* Stage 1 holds output 1; every output has one holder outside the stages.
OutputsInit(s) == IF s = 1 THEN <<1>> ELSE <<>>
ORefsInit(o) == 1 + Cardinality({s \in Stages : o \in Range(OutputsInit(s))})

HistInit ==
    [zeroBy |-> [s \in Stages |-> {}],
     destroyRuns |-> [s \in Stages |-> 0],
     destroyedBy |-> [s \in Stages |-> {}],
     ctlFrees |-> [s \in Stages |-> 0],
     uaf |-> [t \in Threads |-> "none"],
     enumStart |-> [t \in Threads |-> <<>>],
     visited |-> [t \in Threads |-> <<>>],
     cbDestroyed |-> [t \in Threads |-> {}],
     cbStopped |-> [t \in Threads |-> FALSE],
     stopped |-> [t \in Threads |-> FALSE],
     dropped |-> [t \in Threads |-> FALSE],
     ctor |-> [t \in Threads |-> <<>>],
     snap |-> [t \in Threads |-> NoSnap],
     ocalls |-> [t \in Threads |-> <<>>],
     force |-> [t \in Threads |-> FALSE],
     stale |-> [t \in Threads |-> FALSE],
     calls |-> 0]

ThreadsInit ==
    /\ pc = [t \in Threads |-> "idle"]
    /\ stk = [t \in Threads |-> <<>>]
    /\ lstage = [t \in Threads |-> NULL]
    /\ lout = [t \in Threads |-> NULL]
    /\ lidx = [t \in Threads |-> 0]
    /\ lnext = [t \in Threads |-> NULL]
    /\ lname = [t \in Threads |-> ""]
    /\ res = [t \in Threads |-> NoResult]

Init ==
    /\ mem = [s \in Stages |-> "live"]
    /\ sname = [s \in Stages |-> StageName(s)]
    /\ sflags = [s \in Stages |-> {}]
    /\ spriv = [s \in Stages |-> FALSE]
    /\ video = [s \in Stages |-> VideoInit]
    /\ canvas = [s \in Stages |-> "bound"]
    /\ cname = [s \in Stages |-> StageName(s)]
    /\ outputs = [s \in Stages |-> OutputsInit(s)]
    /\ nxt = [s \in Stages |-> s - 1]
    /\ prev_next = [s \in Stages |-> IF s = NStages THEN 0 ELSE s + 1]
    /\ first_stage = NStages
    /\ refs = [s \in Stages |-> obs_context_init_control.refs]
    /\ weak_refs = [s \in Stages |-> obs_context_init_control.weak_refs]
    /\ ctl = [s \in Stages |-> "live"]
    /\ orefs = [o \in Outputs |-> ORefsInit(o)]
    /\ oactive = [o \in Outputs |-> o = 1]
    /\ oext = [o \in Outputs |-> 1]
    /\ stages_mutex = MutexFree
    /\ outputs_mutex = [s \in Stages |-> NULL]
    /\ sigs = EmptyBag
    /\ ThreadsInit
    /\ owned = [t \in Threads |-> [s \in Stages |-> IF Creator(s) = t THEN 1 ELSE 0]]
    /\ wowned = [t \in Threads |-> [s \in Stages |-> 0]]
    /\ hist = HistInit

\* The caller takes the result of its call and is idle again.
Return(t) ==
    /\ pc[t] = "done"
    /\ pc' = [pc EXCEPT ![t] = "idle"]
    /\ res' = [res EXCEPT ![t] = NoResult]
    /\ lstage' = [lstage EXCEPT ![t] = NULL]
    /\ lout' = [lout EXCEPT ![t] = NULL]
    /\ lidx' = [lidx EXCEPT ![t] = 0]
    /\ lnext' = [lnext EXCEPT ![t] = NULL]
    /\ lname' = [lname EXCEPT ![t] = ""]
    /\ hist' = [hist EXCEPT !.enumStart[t] = <<>>, !.visited[t] = <<>>,
                            !.cbDestroyed[t] = {}, !.cbStopped[t] = FALSE,
                            !.stopped[t] = FALSE, !.dropped[t] = FALSE,
                            !.ctor[t] = <<>>, !.snap[t] = NoSnap,
                            !.ocalls[t] = <<>>, !.force[t] = FALSE,
                            !.stale[t] = FALSE]
    /\ UNCHANGED <<stageVars, regVars, ctlVars, outVars, mtxVars, sigs, stk, ownVars>>

\* ------------------------------------------------ reference counting
\* Threads take, hand over and release strong and weak references to stage 1
\* (the one that owns an output); the last release tears the stage down.
RefStages == {s \in Stages : s = Min(Stages)}

RefNext ==
    \/ \E t \in Threads, s \in RefStages : obs_stage_release(t, s)
    \/ \E t \in Threads : obs_stage_release_weak(t)
    \/ \E t \in Threads : obs_stage_destroy(t)
    \/ \E t \in Threads, s \in RefStages, u \in Threads : obs_stage_get_ref(t, s, u)
    \/ \E t \in Threads, s \in RefStages : obs_stage_get_weak_stage(t, s)
    \/ \E t \in Threads, s \in RefStages : obs_weak_stage_addref(t, s)
    \/ \E t \in Threads, s \in RefStages : obs_weak_stage_release(t, s)
    \/ \E t \in Threads, s \in RefStages : obs_weak_stage_get_stage(t, s)
    \/ \E t \in Threads, s \in RefStages : obs_get_stage_by_name_lock(t, StageName(s))
    \/ \E t \in Threads : obs_get_stage_by_name_walk(t)
    \/ \E t \in Threads : Return(t)

SpecRef == Init /\ [][RefNext]_vars

\* ------------------------------------------------ the registry
\* Threads release the references they own, look stages up by name and
\* enumerate the registry.
RegStep(t) ==
    \/ \E s \in Stages : obs_stage_release(t, s)
    \/ obs_stage_release_weak(t)
    \/ obs_stage_destroy(t)
    \/ \E name \in NameArgs : obs_get_stage_by_name_lock(t, name)
    \/ obs_get_stage_by_name_walk(t)
    \/ obs_enum_stages(t)
    \/ Return(t)

RegNext == \E t \in Threads : RegStep(t)

SpecReg == Init /\ [][RegNext]_vars

\* Every thread is scheduled again and again: a thread that can take a step
\* eventually takes one.
LiveReg == SpecReg /\ \A t \in Threads : WF_vars(RegStep(t))

\* ------------------------------------------------ start all / stop all
\* A call the thread made on an output: [call, out, ok].
OCall(call, o, ok) == [call |-> call, out |-> o, ok |-> ok]

\* if (!stage) return; pthread_mutex_lock(&stage->outputs_mutex)
obs_stage_start_all_outputs_lock(t, s) ==
    /\ pc[t] = "idle"
    /\ hist.calls < MaxCalls
    /\ owned[t][s] > 0
    /\ outputs_mutex[s] = NULL
    /\ outputs_mutex' = [outputs_mutex EXCEPT ![s] = t]
    /\ lstage' = [lstage EXCEPT ![t] = s]
    /\ lidx' = [lidx EXCEPT ![t] = 1]
    /\ pc' = [pc EXCEPT ![t] = "sa_scan"]
    /\ hist' = [hist EXCEPT !.calls = @ + 1]
    /\ UNCHANGED <<stageVars, regVars, ctlVars, outVars, stages_mutex, sigs,
                   stk, lout, lnext, lname, res, ownVars>>

\* The round that signals output_start whether the start succeeded or not.
obs_stage_start_all_outputs_scan_signal_always(t) ==
    LET s == lstage[t]
        i == lidx[t]
    IN
    /\ pc[t] = "sa_scan"
    /\ IF i <= Len(outputs[s])
       THEN LET o == outputs[s][i] IN
            /\ IF ~obs_output_active(o)
               THEN \E ok \in BOOLEAN :
                        /\ oactive' = obs_output_start(oactive, o, ok)
                        /\ sigs' = stage_dosignal_output(sigs, s, "output_start", o)
                        /\ hist' = [hist EXCEPT !.ocalls[t] = Append(@, OCall("start", o, ok))]
               ELSE UNCHANGED <<oactive, sigs, hist>>
            /\ lidx' = [lidx EXCEPT ![t] = i + 1]
            /\ UNCHANGED <<outputs_mutex, pc, res>>
       ELSE /\ outputs_mutex' = [outputs_mutex EXCEPT ![s] = NULL]
            /\ pc' = [pc EXCEPT ![t] = "done"]
            /\ res' = [res EXCEPT ![t] = Result("start_all_outputs", s, NULL, "void")]
            /\ UNCHANGED <<oactive, sigs, hist, lidx>>
    /\ UNCHANGED <<stageVars, regVars, ctlVars, orefs, oext, stages_mutex,
                   stk, lstage, lout, lnext, lname, ownVars>>

\* One round of the loop of obs_stage_start_all_outputs: an output that is
\* not active is started and, when the start succeeded, output_start is
\* signalled; after the last round the unlock.
obs_stage_start_all_outputs_scan(t) ==
    LET s == lstage[t]
        i == lidx[t]
    IN
    /\ pc[t] = "sa_scan"
    /\ IF i <= Len(outputs[s])
       THEN LET o == outputs[s][i] IN
            /\ IF ~obs_output_active(o)
               THEN \E ok \in BOOLEAN :
                        /\ oactive' = obs_output_start(oactive, o, ok)
                        /\ sigs' = IF ok THEN stage_dosignal_output(sigs, s, "output_start", o)
                                   ELSE sigs
                        /\ hist' = [hist EXCEPT !.ocalls[t] = Append(@, OCall("start", o, ok))]
               ELSE UNCHANGED <<oactive, sigs, hist>>
            /\ lidx' = [lidx EXCEPT ![t] = i + 1]
            /\ UNCHANGED <<outputs_mutex, pc, res>>
       ELSE /\ outputs_mutex' = [outputs_mutex EXCEPT ![s] = NULL]
            /\ pc' = [pc EXCEPT ![t] = "done"]
            /\ res' = [res EXCEPT ![t] = Result("start_all_outputs", s, NULL, "void")]
            /\ UNCHANGED <<oactive, sigs, hist, lidx>>
    /\ UNCHANGED <<stageVars, regVars, ctlVars, orefs, oext, stages_mutex,
                   stk, lstage, lout, lnext, lname, ownVars>>

obs_stage_start_all_outputs(t) ==
    \/ \E s \in Stages : obs_stage_start_all_outputs_lock(t, s)
    \/ obs_stage_start_all_outputs_scan(t)

\* if (!stage) return; pthread_mutex_lock(&stage->outputs_mutex)
obs_stage_stop_all_outputs_lock(t, s, force) ==
    /\ pc[t] = "idle"
    /\ hist.calls < MaxCalls
    /\ owned[t][s] > 0
    /\ outputs_mutex[s] = NULL
    /\ outputs_mutex' = [outputs_mutex EXCEPT ![s] = t]
    /\ lstage' = [lstage EXCEPT ![t] = s]
    /\ lidx' = [lidx EXCEPT ![t] = 1]
    /\ pc' = [pc EXCEPT ![t] = "so_scan"]
    /\ hist' = [hist EXCEPT !.calls = @ + 1, !.force[t] = force]
    /\ UNCHANGED <<stageVars, regVars, ctlVars, outVars, stages_mutex, sigs,
                   stk, lout, lnext, lname, res, ownVars>>

\* One round of the loop of obs_stage_stop_all_outputs: an output that is
\* active is stopped and output_stop is signalled; after the last round the
\* unlock.  UNUSED_PARAMETER(force).
obs_stage_stop_all_outputs_scan(t) ==
    LET s == lstage[t]
        i == lidx[t]
    IN
    /\ pc[t] = "so_scan"
    /\ IF i <= Len(outputs[s])
       THEN LET o == outputs[s][i] IN
            /\ IF obs_output_active(o)
               THEN /\ oactive' = obs_output_stop(oactive, o)
                    /\ sigs' = stage_dosignal_output(sigs, s, "output_stop", o)
                    /\ hist' = [hist EXCEPT !.ocalls[t] = Append(@, OCall("stop", o, TRUE))]
               ELSE UNCHANGED <<oactive, sigs, hist>>
            /\ lidx' = [lidx EXCEPT ![t] = i + 1]
            /\ UNCHANGED <<outputs_mutex, pc, res>>
       ELSE /\ outputs_mutex' = [outputs_mutex EXCEPT ![s] = NULL]
            /\ pc' = [pc EXCEPT ![t] = "done"]
            /\ res' = [res EXCEPT ![t] = Result("stop_all_outputs", s, NULL, "void")]
            /\ UNCHANGED <<oactive, sigs, hist, lidx>>
    /\ UNCHANGED <<stageVars, regVars, ctlVars, orefs, oext, stages_mutex,
                   stk, lstage, lout, lnext, lname, ownVars>>

obs_stage_stop_all_outputs(t) ==
    \/ \E s \in Stages, force \in BOOLEAN : obs_stage_stop_all_outputs_lock(t, s, force)
    \/ obs_stage_stop_all_outputs_scan(t)

\* ------------------------------------------------ index reads
\* obs_stage_get_output_count: stage->outputs.num, 0 without a stage.
obs_stage_get_output_count(s) == IF s = NULL THEN 0 ELSE Len(outputs[s])

\* obs_stage_get_output: stage->outputs.array[idx], NULL without a stage or
\* for an index past the end (idx counts from 0).
obs_stage_get_output(s, idx) ==
    IF s = NULL \/ idx >= Len(outputs[s]) THEN NULL ELSE outputs[s][idx + 1]

\* ------------------------------------------------ index operations
\* The collection of s holds its strong reference to o: o is in the array and
\* no obs_stage_remove_output stands between its obs_output_release (line
\* 296) and its da_erase (line 297) for o.
CollectionHolds(s, o) ==
    /\ o \in Range(outputs[s])
    /\ ~\E u \in Threads : pc[u] = "ro_erase" /\ lstage[u] = s /\ lout[u] = o

\* obs_stage_get_output as a call: one read of the array, without the mutex.
obs_stage_get_output_call(t, s, idx) ==
    LET o == obs_stage_get_output(s, idx) IN
    /\ pc[t] = "idle"
    /\ hist.calls < MaxCalls
    /\ owned[t][s] > 0
    /\ lstage' = [lstage EXCEPT ![t] = s]
    /\ lout' = [lout EXCEPT ![t] = o]
    /\ pc' = [pc EXCEPT ![t] = "done"]
    /\ res' = [res EXCEPT ![t] = Result("get_output", s, o, o # NULL)]
    /\ hist' = [hist EXCEPT !.calls = @ + 1,
                            !.stale[t] = o # NULL /\ ~CollectionHolds(s, o)]
    /\ UNCHANGED <<stageVars, regVars, ctlVars, outVars, mtxVars, sigs,
                   stk, lidx, lnext, lname, ownVars>>

\* The head of obs_stage_start_output and obs_stage_stop_output, without the
\* mutex: if (!stage || idx >= stage->outputs.num) return;
\* output = stage->outputs.array[idx]; if (!output) return.
index_read(t, s, idx, op, void, label) ==
    LET o == obs_stage_get_output(s, idx) IN
    /\ pc[t] = "idle"
    /\ hist.calls < MaxCalls
    /\ owned[t][s] > 0
    /\ lstage' = [lstage EXCEPT ![t] = s]
    /\ lout' = [lout EXCEPT ![t] = o]
    /\ IF o = NULL
       THEN /\ pc' = [pc EXCEPT ![t] = "done"]
            /\ res' = [res EXCEPT ![t] = Result(op, s, NULL, void)]
       ELSE /\ pc' = [pc EXCEPT ![t] = label]
            /\ res' = res

obs_stage_start_output_read(t, s, idx) ==
    /\ index_read(t, s, idx, "start_output", FALSE, "xs_call")
    /\ hist' = [hist EXCEPT !.calls = @ + 1]
    /\ UNCHANGED <<stageVars, regVars, ctlVars, outVars, mtxVars, sigs,
                   stk, lidx, lnext, lname, ownVars>>

\* A call on an output whose memory was freed is undefined: the thread stops
\* there, or the call goes on as it would on a live output.
freed_output_call(t, op) ==
    /\ orefs[lout[t]] = 0
    /\ pc' = [pc EXCEPT ![t] = "ub"]
    /\ hist' = [hist EXCEPT !.uaf[t] = op, !.stale[t] = TRUE]
    /\ UNCHANGED <<oactive, sigs, res>>

\* bool success = obs_output_start(output);
\* if (success) stage_dosignal_output(stage, "output_start", output);
\* return success
obs_stage_start_output_call(t) ==
    LET s == lstage[t]
        o == lout[t]
    IN
    /\ pc[t] = "xs_call"
    /\ \/ freed_output_call(t, "start_output")
       \/ \E ok \in BOOLEAN :
              /\ oactive' = obs_output_start(oactive, o, ok)
              /\ sigs' = IF ok THEN stage_dosignal_output(sigs, s, "output_start", o)
                         ELSE sigs
              /\ hist' = [hist EXCEPT !.ocalls[t] = Append(@, OCall("start", o, ok)),
                                      !.stale[t] = ~CollectionHolds(s, o)]
              /\ pc' = [pc EXCEPT ![t] = "done"]
              /\ res' = [res EXCEPT ![t] = Result("start_output", s, o, ok)]
    /\ UNCHANGED <<stageVars, regVars, ctlVars, orefs, oext, mtxVars,
                   stk, lstage, lout, lidx, lnext, lname, ownVars>>

obs_stage_start_output(t, s) ==
    \/ \E idx \in 0..NOutputs : obs_stage_start_output_read(t, s, idx)
    \/ obs_stage_start_output_call(t)

obs_stage_stop_output_read(t, s, idx, force) ==
    /\ index_read(t, s, idx, "stop_output", "void", "xp_call")
    /\ hist' = [hist EXCEPT !.calls = @ + 1, !.force[t] = force]
    /\ UNCHANGED <<stageVars, regVars, ctlVars, outVars, mtxVars, sigs,
                   stk, lidx, lnext, lname, ownVars>>

\* obs_output_stop(output); stage_dosignal_output(stage, "output_stop", output);
\* UNUSED_PARAMETER(force).  The call is recorded with the state the output
\* was in.
obs_stage_stop_output_call(t) ==
    LET s == lstage[t]
        o == lout[t]
    IN
    /\ pc[t] = "xp_call"
    /\ \/ freed_output_call(t, "stop_output")
       \/ /\ oactive' = obs_output_stop(oactive, o)
          /\ sigs' = stage_dosignal_output(sigs, s, "output_stop", o)
          /\ hist' = [hist EXCEPT
                          !.ocalls[t] = Append(@, OCall("stop", o, obs_output_active(o))),
                          !.stale[t] = ~CollectionHolds(s, o)]
          /\ pc' = [pc EXCEPT ![t] = "done"]
          /\ res' = [res EXCEPT ![t] = Result("stop_output", s, o, "void")]
    /\ UNCHANGED <<stageVars, regVars, ctlVars, orefs, oext, mtxVars,
                   stk, lstage, lout, lidx, lnext, lname, ownVars>>

obs_stage_stop_output(t, s) ==
    \/ \E idx \in 0..NOutputs, force \in BOOLEAN :
           obs_stage_stop_output_read(t, s, idx, force)
    \/ obs_stage_stop_output_call(t)

\* if (!stage) return false; i = 0
obs_stage_any_output_active_enter(t, s) ==
    /\ pc[t] = "idle"
    /\ hist.calls < MaxCalls
    /\ owned[t][s] > 0
    /\ lstage' = [lstage EXCEPT ![t] = s]
    /\ lidx' = [lidx EXCEPT ![t] = 1]
    /\ pc' = [pc EXCEPT ![t] = "aa_scan"]
    /\ hist' = [hist EXCEPT !.calls = @ + 1]
    /\ UNCHANGED <<stageVars, regVars, ctlVars, outVars, mtxVars, sigs,
                   stk, lout, lnext, lname, res, ownVars>>

\* One round of the loop of obs_stage_any_output_active, without the mutex:
\* i < stage->outputs.num; if (obs_output_active(stage->outputs.array[i]))
\* return true; after the last round return false.
obs_stage_any_output_active_scan(t) ==
    LET s == lstage[t]
        i == lidx[t]
    IN
    /\ pc[t] = "aa_scan"
    /\ IF i <= Len(outputs[s])
       THEN LET o == outputs[s][i] IN
            \/ /\ orefs[o] = 0
               /\ pc' = [pc EXCEPT ![t] = "ub"]
               /\ hist' = [hist EXCEPT !.uaf[t] = "any_output_active", !.stale[t] = TRUE]
               /\ lout' = [lout EXCEPT ![t] = o]
               /\ UNCHANGED <<lidx, res>>
            \/ /\ hist' = [hist EXCEPT
                               !.ocalls[t] = Append(@, OCall("active", o, obs_output_active(o))),
                               !.stale[t] = @ \/ ~CollectionHolds(s, o)]
               /\ lout' = [lout EXCEPT ![t] = o]
               /\ IF obs_output_active(o)
                  THEN /\ pc' = [pc EXCEPT ![t] = "done"]
                       /\ res' = [res EXCEPT ![t] = Result("any_output_active", s, o, TRUE)]
                       /\ UNCHANGED lidx
                  ELSE /\ lidx' = [lidx EXCEPT ![t] = i + 1]
                       /\ UNCHANGED <<pc, res>>
       ELSE /\ pc' = [pc EXCEPT ![t] = "done"]
            /\ res' = [res EXCEPT ![t] = Result("any_output_active", s, NULL, FALSE)]
            /\ UNCHANGED <<lidx, lout, hist>>
    /\ UNCHANGED <<stageVars, regVars, ctlVars, outVars, mtxVars, sigs,
                   stk, lstage, lnext, lname, ownVars>>

obs_stage_any_output_active(t, s) ==
    \/ obs_stage_any_output_active_enter(t, s)
    \/ obs_stage_any_output_active_scan(t)

\* ------------------------------------------------ obs_free_stages
\* pthread_mutex_lock(&obs->data.stages_mutex); stage = obs->data.first_stage
obs_free_stages_lock(t) ==
    /\ pc[t] = "idle"
    /\ hist.calls < MaxCalls
    /\ CanLock(stages_mutex, t)
    /\ stages_mutex' = Lock(stages_mutex, t)
    /\ lstage' = [lstage EXCEPT ![t] = first_stage]
    /\ pc' = [pc EXCEPT ![t] = "fs_loop"]
    /\ hist' = [hist EXCEPT !.calls = @ + 1, !.enumStart[t] = Registry]
    /\ UNCHANGED <<stageVars, regVars, ctlVars, outVars, outputs_mutex, sigs,
                   stk, lout, lidx, lnext, lname, res, ownVars>>

\* while (stage) { next = stage->next; obs_stage_destroy(stage); ... } with
\* the registry mutex held, and after the loop first_stage = NULL and the
\* unlock.
obs_free_stages_loop(t) ==
    LET s == lstage[t] IN
    /\ pc[t] = "fs_loop"
    /\ IF s = NULL
       THEN /\ first_stage' = NULL
            /\ stages_mutex' = Unlock(stages_mutex)
            /\ pc' = [pc EXCEPT ![t] = "done"]
            /\ res' = [res EXCEPT ![t] = Result("free_stages", NULL, NULL, "void")]
            /\ UNCHANGED <<lnext, stk>>
       ELSE /\ lnext' = [lnext EXCEPT ![t] = nxt[s]]
            /\ stk' = [stk EXCEPT ![t] = <<"fs_next">> \o @]
            /\ pc' = [pc EXCEPT ![t] = "d_signal"]
            /\ UNCHANGED <<first_stage, stages_mutex, res>>
    /\ UNCHANGED <<stageVars, nxt, prev_next, ctlVars, outVars, outputs_mutex, sigs,
                   lstage, lout, lidx, lname, ownVars, hist>>

\* stage = next
obs_free_stages_next(t) ==
    /\ pc[t] = "fs_next"
    /\ lstage' = [lstage EXCEPT ![t] = lnext[t]]
    /\ pc' = [pc EXCEPT ![t] = "fs_loop"]
    /\ UNCHANGED <<stageVars, regVars, ctlVars, outVars, mtxVars, sigs,
                   stk, lout, lidx, lnext, lname, res, ownVars, hist>>

obs_free_stages(t) ==
    \/ obs_free_stages_lock(t)
    \/ obs_free_stages_loop(t)
    \/ obs_free_stages_next(t)

\* ------------------------------------------------ the output collections
\* Every thread owns a reference to every stage (the creator took them with
\* obs_stage_get_ref and handed them over); any output may be running.
InitOut ==
    /\ mem = [s \in Stages |-> "live"]
    /\ sname = [s \in Stages |-> StageName(s)]
    /\ sflags = [s \in Stages |-> {}]
    /\ spriv = [s \in Stages |-> FALSE]
    /\ video = [s \in Stages |-> VideoInit]
    /\ canvas = [s \in Stages |-> "bound"]
    /\ cname = [s \in Stages |-> StageName(s)]
    /\ outputs = [s \in Stages |-> OutputsInit(s)]
    /\ nxt = [s \in Stages |-> s - 1]
    /\ prev_next = [s \in Stages |-> IF s = NStages THEN 0 ELSE s + 1]
    /\ first_stage = NStages
    /\ refs = [s \in Stages |-> NThreads]
    /\ weak_refs = [s \in Stages |-> obs_context_init_control.weak_refs]
    /\ ctl = [s \in Stages |-> "live"]
    /\ orefs = [o \in Outputs |-> ORefsInit(o)]
    /\ oactive \in [Outputs -> BOOLEAN]
    /\ oext = [o \in Outputs |-> 1]
    /\ stages_mutex = MutexFree
    /\ outputs_mutex = [s \in Stages |-> NULL]
    /\ sigs = EmptyBag
    /\ ThreadsInit
    /\ owned = [t \in Threads |-> [s \in Stages |-> 1]]
    /\ wowned = [t \in Threads |-> [s \in Stages |-> 0]]
    /\ hist = HistInit

\* Threads add outputs to and remove them from the stages they hold, release
\* their stage references (the last release tears the stage down), and the
\* outside holders of the outputs release them.
OutNext ==
    \/ \E t \in Threads, s \in Stages, o \in Outputs \cup {NULL} : obs_stage_add_output_lock(t, s, o)
    \/ \E t \in Threads : obs_stage_add_output(t)
    \/ \E t \in Threads, s \in Stages, o \in Outputs \cup {NULL} : obs_stage_remove_output_lock(t, s, o)
    \/ \E t \in Threads : obs_stage_remove_output(t)
    \/ \E t \in Threads, s \in Stages : obs_stage_release(t, s)
    \/ \E t \in Threads : obs_stage_release_weak(t)
    \/ \E t \in Threads : obs_stage_destroy(t)
    \/ \E o \in Outputs : output_release_external(o)
    \/ \E t \in Threads : Return(t)

SpecOut == InitOut /\ [][OutNext]_vars

\* ------------------------------------------------ racing adds
\* Every thread calls obs_stage_add_output once, all of them for the same
\* stage and the same live output, which the stage does not hold yet.
add_output_same(t, s, o) ==
    /\ \A u \in Threads : pc[u] # "idle" => (lstage[u] = s /\ lout[u] = o)
    /\ (\A u \in Threads : pc[u] = "idle") => o \notin Range(outputs[s])
    /\ obs_stage_add_output_lock(t, s, o)

AddNext ==
    \/ \E t \in Threads, s \in Stages, o \in Outputs : add_output_same(t, s, o)
    \/ \E t \in Threads : obs_stage_add_output(t)

SpecAdd == InitOut /\ [][AddNext]_vars

\* ------------------------------------------------ renaming
\* Stage 1 may be the primary stage of the core (OBS_STAGE_MAIN), any stage may
\* be private, and every thread owns a reference to every stage.
InitName ==
    /\ mem = [s \in Stages |-> "live"]
    /\ sname = [s \in Stages |-> StageName(s)]
    /\ sflags \in {[s \in Stages |-> IF s = 1 THEN f ELSE {}] : f \in {{}, {OBS_STAGE_MAIN}}}
    /\ spriv \in [Stages -> BOOLEAN]
    /\ video = [s \in Stages |-> VideoInit]
    /\ canvas = [s \in Stages |-> "bound"]
    /\ cname = [s \in Stages |-> StageName(s)]
    /\ outputs = [s \in Stages |-> OutputsInit(s)]
    /\ nxt = [s \in Stages |-> s - 1]
    /\ prev_next = [s \in Stages |-> IF s = NStages THEN 0 ELSE s + 1]
    /\ first_stage = NStages
    /\ refs = [s \in Stages |-> NThreads]
    /\ weak_refs = [s \in Stages |-> obs_context_init_control.weak_refs]
    /\ ctl = [s \in Stages |-> "live"]
    /\ orefs = [o \in Outputs |-> ORefsInit(o)]
    /\ oactive = [o \in Outputs |-> o = 1]
    /\ oext = [o \in Outputs |-> 1]
    /\ stages_mutex = MutexFree
    /\ outputs_mutex = [s \in Stages |-> NULL]
    /\ sigs = EmptyBag
    /\ ThreadsInit
    /\ owned = [t \in Threads |-> [s \in Stages |-> 1]]
    /\ wowned = [t \in Threads |-> [s \in Stages |-> 0]]
    /\ hist = HistInit

\* The name of a stage has no lock: its callers rename a stage one at a time.
set_name_call(t, s, name) ==
    /\ \A u \in Threads : pc[u] = "sn_apply" => lstage[u] # s
    /\ obs_stage_set_name_check(t, s, name)

NameNext ==
    \/ \E t \in Threads, s \in Stages \cup {NULL}, name \in NameArgs : set_name_call(t, s, name)
    \/ \E t \in Threads : obs_stage_set_name_apply(t)
    \/ \E t \in Threads : Return(t)

SpecName == InitName /\ [][NameNext]_vars

\* ------------------------------------------------ the life of a stage
\* No stage exists yet; the outputs have their outside holders.
InitEmpty ==
    /\ mem = [s \in Stages |-> "none"]
    /\ sname = [s \in Stages |-> ""]
    /\ sflags = [s \in Stages |-> {}]
    /\ spriv = [s \in Stages |-> FALSE]
    /\ video = [s \in Stages |-> VideoZero]
    /\ canvas = [s \in Stages |-> "none"]
    /\ cname = [s \in Stages |-> ""]
    /\ outputs = [s \in Stages |-> <<>>]
    /\ nxt = [s \in Stages |-> NULL]
    /\ prev_next = [s \in Stages |-> 0]
    /\ first_stage = NULL
    /\ refs = [s \in Stages |-> 0]
    /\ weak_refs = [s \in Stages |-> 0]
    /\ ctl = [s \in Stages |-> "none"]
    /\ orefs = [o \in Outputs |-> 1]
    /\ oactive = [o \in Outputs |-> FALSE]
    /\ oext = [o \in Outputs |-> 1]
    /\ stages_mutex = MutexFree
    /\ outputs_mutex = [s \in Stages |-> NULL]
    /\ sigs = EmptyBag
    /\ ThreadsInit
    /\ owned = [t \in Threads |-> [s \in Stages |-> 0]]
    /\ wowned = [t \in Threads |-> [s \in Stages |-> 0]]
    /\ hist = HistInit

FlagArgs == {{}, {OBS_STAGE_MAIN, OBS_STAGE_MIX_AUDIO}, {OBS_STAGE_EPHEMERAL}}

\* Threads create public and private stages (any step of a construction may
\* fail), rename the stages they hold and release them.
LifeNext ==
    \/ \E t \in Threads, name \in Names, flags \in FlagArgs, fail \in CtorFailures :
           obs_stage_create(t, name, VideoInit, flags, fail)
    \/ \E t \in Threads, name \in Names, flags \in FlagArgs, fail \in CtorFailures :
           obs_stage_create_private(t, name, VideoInit, flags, fail)
    \/ \E t \in Threads : obs_stage_create_internal(t)
    \/ \E t \in Threads, s \in Stages, name \in Names : set_name_call(t, s, name)
    \/ \E t \in Threads : obs_stage_set_name_apply(t)
    \/ \E t \in Threads, s \in Stages : obs_stage_release(t, s)
    \/ \E t \in Threads : obs_stage_release_weak(t)
    \/ \E t \in Threads : obs_stage_destroy(t)
    \/ \E t \in Threads : Return(t)

SpecLife == InitEmpty /\ [][LifeNext]_vars

\* One stage exists, public or private, with any of the flag sets and with or
\* without a video info; every thread holds a reference to it.
SaveFlags == FlagArgs \cup {{OBS_STAGE_MIX_AUDIO}}

InitSave ==
    /\ mem = [s \in Stages |-> IF s = 1 THEN "live" ELSE "none"]
    /\ sname = [s \in Stages |-> IF s = 1 THEN "a" ELSE ""]
    /\ sflags \in {[s \in Stages |-> IF s = 1 THEN f ELSE {}] : f \in SaveFlags}
    /\ spriv \in {[s \in Stages |-> s = 1 /\ b] : b \in BOOLEAN}
    /\ video \in {[s \in Stages |-> IF s = 1 THEN v ELSE VideoZero] :
                      v \in VideoInfos \cup {VideoNone}}
    /\ canvas = [s \in Stages |-> IF s = 1 THEN "bound" ELSE "none"]
    /\ cname = [s \in Stages |-> IF s = 1 THEN "a" ELSE ""]
    /\ outputs = [s \in Stages |-> <<>>]
    /\ nxt = [s \in Stages |-> NULL]
    /\ prev_next = [s \in Stages |-> 0]
    /\ first_stage = 1
    /\ refs = [s \in Stages |-> IF s = 1 THEN NThreads ELSE 0]
    /\ weak_refs = [s \in Stages |-> IF s = 1 THEN obs_context_init_control.weak_refs ELSE 0]
    /\ ctl = [s \in Stages |-> IF s = 1 THEN "live" ELSE "none"]
    /\ orefs = [o \in Outputs |-> 1]
    /\ oactive = [o \in Outputs |-> FALSE]
    /\ oext = [o \in Outputs |-> 1]
    /\ stages_mutex = MutexFree
    /\ outputs_mutex = [s \in Stages |-> NULL]
    /\ sigs = EmptyBag
    /\ ThreadsInit
    /\ owned = [t \in Threads |-> [s \in Stages |-> IF s = 1 THEN 1 ELSE 0]]
    /\ wowned = [t \in Threads |-> [s \in Stages |-> 0]]
    /\ hist = HistInit

\* Threads save the stage, load records (the one just saved or another),
\* create stages and rename the stage in between.
SaveNext ==
    \/ \E t \in Threads, s \in Stages \cup {NULL} : obs_save_stage(t, s)
    \/ \E t \in Threads : obs_load_stage(t)
    \/ \E t \in Threads, flags \in FlagArgs :
           obs_stage_create(t, "b", VideoInit, flags, "none")
    \/ \E t \in Threads : obs_stage_create_internal(t)
    \/ \E t \in Threads, s \in Stages, name \in Names : set_name_call(t, s, name)
    \/ \E t \in Threads : obs_stage_set_name_apply(t)
    \/ \E t \in Threads : Return(t)

SpecSave == InitSave /\ [][SaveNext]_vars

\* Shutdown: a thread frees all stages while the holders of references
\* release them.
FreeNext ==
    \/ \E t \in Threads : obs_free_stages(t)
    \/ \E t \in Threads : obs_stage_destroy(t)
    \/ \E t \in Threads, s \in Stages : obs_stage_release(t, s)
    \/ \E t \in Threads, s \in Stages : obs_stage_release_freed(t, s)
    \/ \E t \in Threads : obs_stage_release_weak(t)
    \/ \E t \in Threads : Return(t)

SpecFree == Init /\ [][FreeNext]_vars

\* ------------------------------------------------ bulk start and stop
\* Stage 1 holds both outputs, each active or not; threads start and stop all
\* outputs of a stage while others add and remove outputs.
BulkInit(s) == IF s = 1 THEN [i \in 1..NOutputs |-> i] ELSE <<>>

InitBulk ==
    /\ mem = [s \in Stages |-> "live"]
    /\ sname = [s \in Stages |-> StageName(s)]
    /\ sflags = [s \in Stages |-> {}]
    /\ spriv = [s \in Stages |-> FALSE]
    /\ video = [s \in Stages |-> VideoInit]
    /\ canvas = [s \in Stages |-> "bound"]
    /\ cname = [s \in Stages |-> StageName(s)]
    /\ outputs = [s \in Stages |-> BulkInit(s)]
    /\ nxt = [s \in Stages |-> s - 1]
    /\ prev_next = [s \in Stages |-> IF s = NStages THEN 0 ELSE s + 1]
    /\ first_stage = NStages
    /\ refs = [s \in Stages |-> NThreads]
    /\ weak_refs = [s \in Stages |-> obs_context_init_control.weak_refs]
    /\ ctl = [s \in Stages |-> "live"]
    /\ orefs = [o \in Outputs |-> 2]
    /\ oactive \in [Outputs -> BOOLEAN]
    /\ oext = [o \in Outputs |-> 1]
    /\ stages_mutex = MutexFree
    /\ outputs_mutex = [s \in Stages |-> NULL]
    /\ sigs = EmptyBag
    /\ ThreadsInit
    /\ owned = [t \in Threads |-> [s \in Stages |-> 1]]
    /\ wowned = [t \in Threads |-> [s \in Stages |-> 0]]
    /\ hist = HistInit

BulkNext ==
    \/ \E t \in Threads : obs_stage_start_all_outputs(t)
    \/ \E t \in Threads : obs_stage_stop_all_outputs(t)
    \/ \E t \in Threads, o \in Outputs : obs_stage_add_output_lock(t, 1, o)
    \/ \E t \in Threads : obs_stage_add_output(t)
    \/ \E t \in Threads, o \in Outputs : obs_stage_remove_output_lock(t, 1, o)
    \/ \E t \in Threads : obs_stage_remove_output(t)
    \/ \E t \in Threads : Return(t)

SpecBulk == InitBulk /\ [][BulkNext]_vars

\* ------------------------------------------------ the order of a collection
\* Three outputs, so that a removal leaves two behind.
NOrdered == 3
OrderOutputs == 1..NOrdered
OrderInit == {<<>>, [i \in 1..NOrdered |-> i]}

\* Stage 1 holds no output or all of them, added in the order 1, 2, ...;
\* each output has one holder outside the stages.
InitOrder ==
    /\ mem = [s \in Stages |-> "live"]
    /\ sname = [s \in Stages |-> StageName(s)]
    /\ sflags = [s \in Stages |-> {}]
    /\ spriv = [s \in Stages |-> FALSE]
    /\ video = [s \in Stages |-> VideoInit]
    /\ canvas = [s \in Stages |-> "bound"]
    /\ cname = [s \in Stages |-> StageName(s)]
    /\ outputs \in {[s \in Stages |-> IF s = 1 THEN c ELSE <<>>] : c \in OrderInit}
    /\ nxt = [s \in Stages |-> s - 1]
    /\ prev_next = [s \in Stages |-> IF s = NStages THEN 0 ELSE s + 1]
    /\ first_stage = NStages
    /\ refs = [s \in Stages |-> NThreads]
    /\ weak_refs = [s \in Stages |-> obs_context_init_control.weak_refs]
    /\ ctl = [s \in Stages |-> "live"]
    /\ orefs = [o \in OrderOutputs |-> 1 + Len(outputs[1]) \div NOrdered]
    /\ oactive = [o \in OrderOutputs |-> FALSE]
    /\ oext = [o \in OrderOutputs |-> 1]
    /\ stages_mutex = MutexFree
    /\ outputs_mutex = [s \in Stages |-> NULL]
    /\ sigs = EmptyBag
    /\ ThreadsInit
    /\ owned = [t \in Threads |-> [s \in Stages |-> 1]]
    /\ wowned = [t \in Threads |-> [s \in Stages |-> 0]]
    /\ hist = HistInit

\* Threads add outputs to stage 1 and remove them.
OrderNext ==
    \/ \E t \in Threads, o \in OrderOutputs : obs_stage_add_output_lock(t, 1, o)
    \/ \E t \in Threads : obs_stage_add_output(t)
    \/ \E t \in Threads, o \in OrderOutputs : obs_stage_remove_output_lock(t, 1, o)
    \/ \E t \in Threads : obs_stage_remove_output(t)
    \/ \E t \in Threads : Return(t)

SpecOrder == InitOrder /\ [][OrderNext]_vars

\* ------------------------------------------------ invalid arguments
\* What each operation returns from its first check when its stage (for the
\* obs_weak_stage_* operations, its weak reference) is NULL: "void" for a
\* plain return, else the value returned.
NullReturn ==
    [release |-> "void", weak_addref |-> "void", weak_release |-> "void",
     get_ref |-> NULL, get_weak_stage |-> NULL, weak_get_stage |-> NULL,
     destroy |-> "void", add_output |-> FALSE, remove_output |-> FALSE,
     get_output_count |-> 0, get_output |-> NULL,
     start_output |-> FALSE, stop_output |-> "void",
     start_all_outputs |-> "void", stop_all_outputs |-> "void",
     any_output_active |-> FALSE,
     get_canvas |-> NULL, get_video |-> NULL, get_video_info |-> FALSE,
     set_scene |-> "void", get_scene_source |-> NULL,
     get_name |-> NULL, get_flags |-> 0, get_signal_handler |-> NULL]

\* if (!stage) return ...;
null_stage_call(t, op) ==
    /\ pc[t] = "idle"
    /\ pc' = [pc EXCEPT ![t] = "done"]
    /\ res' = [res EXCEPT ![t] = Result(op, NULL, NULL, NullReturn[op])]
    /\ UNCHANGED <<stageVars, regVars, ctlVars, outVars, mtxVars, sigs,
                   stk, lstage, lout, lidx, lnext, lname, ownVars, hist>>

\* obs_enum_stages(NULL, param): if (!enum_proc) return;
obs_enum_stages_null(t) ==
    /\ pc[t] = "idle"
    /\ pc' = [pc EXCEPT ![t] = "done"]
    /\ res' = [res EXCEPT ![t] = Result("enum", NULL, NULL, "void")]
    /\ UNCHANGED <<stageVars, regVars, ctlVars, outVars, mtxVars, sigs,
                   stk, lstage, lout, lidx, lnext, lname, ownVars, hist>>

\* ------------------------------------------------ index operations
\* Stage 1 holds both outputs, each active or not; threads start, stop and
\* read outputs by index while others remove outputs and the outside holders
\* of the outputs let them go.
IndexNext ==
    \/ \E t \in Threads : obs_stage_start_output(t, 1)
    \/ \E t \in Threads : obs_stage_stop_output(t, 1)
    \/ \E t \in Threads, idx \in 0..NOutputs : obs_stage_get_output_call(t, 1, idx)
    \/ \E t \in Threads : obs_stage_any_output_active(t, 1)
    \/ \E t \in Threads, o \in Outputs : obs_stage_remove_output_lock(t, 1, o)
    \/ \E t \in Threads : obs_stage_remove_output(t)
    \/ \E o \in Outputs : output_release_external(o)
    \/ \E t \in Threads : Return(t)

SpecIndex == InitBulk /\ [][IndexNext]_vars

\* ------------------------------------------------ the list of stages
\* Threads create stages and release the references they hold; the last
\* release of a stage tears it down.
ListNext ==
    \/ \E t \in Threads, name \in Names : obs_stage_create(t, name, VideoInit, {}, "none")
    \/ \E t \in Threads : obs_stage_create_internal(t)
    \/ \E t \in Threads, s \in Stages, u \in Threads : obs_stage_get_ref(t, s, u)
    \/ \E t \in Threads, s \in Stages : obs_stage_release(t, s)
    \/ \E t \in Threads : obs_stage_release_weak(t)
    \/ \E t \in Threads : obs_stage_destroy(t)
    \/ \E t \in Threads : Return(t)

SpecList == InitEmpty /\ [][ListNext]_vars

\* ------------------------------------------------ enumeration
\* Threads create stages, take further references to them and enumerate the
\* registry, with a callback or without one; a callback may release a
\* reference of its thread.
EnumNext ==
    \/ \E t \in Threads, name \in Names : obs_stage_create(t, name, VideoInit, {}, "none")
    \/ \E t \in Threads : obs_stage_create_internal(t)
    \/ \E t \in Threads, s \in Stages : obs_stage_get_ref(t, s, t)
    \/ \E t \in Threads : obs_enum_stages(t)
    \/ \E t \in Threads : obs_enum_stages_null(t)
    \/ \E t \in Threads : obs_stage_release_weak(t)
    \/ \E t \in Threads : obs_stage_destroy(t)
    \/ \E t \in Threads : Return(t)

SpecEnum == InitEmpty /\ [][EnumNext]_vars

\* A NULL name and an empty one.
NoNames == {"null", ""}

\* Every call has an invalid argument: no stage, no output, no name or an
\* empty one, no record, no callback.
NullNext ==
    \/ \E t \in Threads, op \in DOMAIN NullReturn : null_stage_call(t, op)
    \/ \E t \in Threads, s \in Stages : obs_stage_add_output_lock(t, s, NULL)
    \/ \E t \in Threads, s \in Stages : obs_stage_remove_output_lock(t, s, NULL)
    \/ \E t \in Threads, s \in Stages \cup {NULL}, name \in NoNames : set_name_call(t, s, name)
    \/ \E t \in Threads, name \in Names : set_name_call(t, NULL, name)
    \/ \E t \in Threads, name \in NoNames : obs_get_stage_by_name_lock(t, name)
    \/ \E t \in Threads : obs_save_stage(t, NULL)
    \/ \E t \in Threads : obs_load_stage_check(t, DataNull)
    \/ \E t \in Threads : obs_enum_stages_null(t)
    \/ \E t \in Threads, name \in NoNames, flags \in FlagArgs, fail \in CtorFailures :
           obs_stage_create(t, name, VideoInit, flags, fail)
    \/ \E t \in Threads, name \in NoNames, flags \in FlagArgs, fail \in CtorFailures :
           obs_stage_create_private(t, name, VideoInit, flags, fail)
    \/ \E t \in Threads : obs_stage_create_internal(t)
    \/ \E t \in Threads : Return(t)

\* One public stage without flags exists; every thread holds a reference.
InitNull == InitSave /\ sflags[1] = {} /\ ~spriv[1] /\ video[1] = VideoInit

SpecNull == InitNull /\ [][NullNext]_vars

\* Threads create public and private stages with any flags, save them, load
\* records, and release what they hold, from no stage at all.
FlagsNext ==
    \/ \E t \in Threads, flags \in FlagArgs :
           obs_stage_create(t, "a", VideoInit, flags, "none")
    \/ \E t \in Threads, flags \in FlagArgs :
           obs_stage_create_private(t, "a", VideoInit, flags, "none")
    \/ \E t \in Threads, s \in Stages : obs_save_stage(t, s)
    \/ \E t \in Threads : obs_load_stage(t)
    \/ \E t \in Threads : obs_stage_create_internal(t)
    \/ \E t \in Threads, s \in Stages : obs_stage_release(t, s)
    \/ \E t \in Threads : obs_stage_release_weak(t)
    \/ \E t \in Threads : obs_stage_destroy(t)
    \/ \E t \in Threads : Return(t)

SpecFlags == InitEmpty /\ [][FlagsNext]_vars

\* ================================================= claims
InDestroy == {"d_signal", "d_lock", "d_outputs", "d_canvas", "d_unlink", "d_free"}

\* The threads that are inside obs_stage_release of stage s after dropping its
\* strong count to zero (teardown pending or running, implicit weak reference
\* not yet released).
Releasing(s) == {t \in Threads : pc[t] \in InDestroy \cup {"rel_weak"} /\ lstage[t] = s
                                 /\ "rel_weak" \in Range(stk[t]) \cup {pc[t]}}

Sum(f, S) ==
    LET Acc[T \in SUBSET S] ==
            IF T = {} THEN 0 ELSE LET x == CHOOSE x \in T : TRUE IN f[x] + Acc[T \ {x}]
    IN  Acc[S]

\* C1: under any interleaving of obs_stage_get_ref and obs_stage_release in
\* which threads release only references they own, obs_stage_destroy runs
\* exactly once per stage: never before the strong count is zero, never twice,
\* always once the count is zero (it is pending in the releasing thread or has
\* started), and the thread that runs it is the one whose release dropped the
\* count to zero.
C1_DestroyExactlyOnce ==
    \A s \in Stages :
        /\ hist.destroyRuns[s] <= 1
        /\ hist.destroyRuns[s] = 1 => refs[s] = 0
        /\ hist.destroyedBy[s] \subseteq hist.zeroBy[s]
        /\ Cardinality(hist.zeroBy[s]) <= 1
        /\ refs[s] = 0 =>
              \/ hist.destroyRuns[s] = 1
              \/ \E t \in hist.zeroBy[s] : pc[t] = "d_signal" /\ lstage[t] = s
        /\ (refs[s] = 0 /\ Releasing(s) = {}) => mem[s] = "freed"
        /\ mem[s] = "freed" => hist.destroyRuns[s] = 1

\* C1 witness: the stage was handed to another thread, which ended up doing the
\* final release and the teardown.
C1_Witness ==
    \E s \in Stages :
        /\ mem[s] = "freed"
        /\ hist.destroyRuns[s] = 1
        /\ hist.destroyedBy[s] = hist.zeroBy[s]
        /\ hist.destroyedBy[s] # {Creator(s)}

\* The step in which thread t gets the result of a promotion on stage s.
Promotes(t, s) ==
    /\ pc[t] # "done"
    /\ pc'[t] = "done"
    /\ res'[t].op \in {"get_ref", "weak_get_stage", "by_name"}
    /\ res'[t].stage = s

\* C2: a strong count that has reached zero stays zero; obs_stage_get_ref and
\* obs_weak_stage_get_stage return NULL and leave the count alone when it is
\* zero, and return the stage and add exactly one when it is above zero.
C2_PromoteOnlyLive ==
    [][\A s \in Stages :
          /\ refs[s] = 0 => refs'[s] = 0
          /\ \A t \in Threads :
                Promotes(t, s) =>
                    IF refs[s] = 0
                    THEN res'[t].val = NULL /\ refs'[s] = 0 /\ owned'[t][s] = owned[t][s]
                    ELSE res'[t].val = s /\ refs'[s] = refs[s] + 1]_vars

\* C2 witness: a promotion through a weak handle has just returned NULL on a
\* stage whose strong count is zero.
C2_Witness ==
    \E t \in Threads :
        /\ pc[t] = "done"
        /\ res[t].op = "weak_get_stage"
        /\ res[t].val = NULL
        /\ refs[res[t].stage] = 0

\* The weak references that are out: the handles in the callers' hands and
\* the implicit one of the stage, held until obs_stage_release lets it go
\* after teardown.
WeakOut(s) ==
    Sum([t \in Threads |-> wowned[t][s]], Threads)
    + (IF refs[s] > 0 \/ Releasing(s) # {} THEN 1 ELSE 0)

\* C3: the control block is live as long as the strong count is above zero or
\* a weak handle is unreleased, the weak count is the number of weak
\* references that are out, and the block is freed exactly once, by the
\* release that brings the weak count to zero with the strong count at zero.
C3_ControlBlockLifetime ==
    \A s \in Stages :
        /\ weak_refs[s] = WeakOut(s)
        /\ ctl[s] = "freed" <=> weak_refs[s] = 0
        /\ ctl[s] = "freed" => refs[s] = 0 /\ \A t \in Threads : wowned[t][s] = 0
        /\ hist.ctlFrees[s] = (IF ctl[s] = "freed" THEN 1 ELSE 0)

\* C3 witness: the block outlived the stage and was freed by an external
\* obs_weak_stage_release.
C3_Witness ==
    \E t \in Threads :
        /\ pc[t] = "done"
        /\ res[t].op = "weak_release"
        /\ ctl[res[t].stage] = "freed"
        /\ mem[res[t].stage] = "freed"

\* C4: obs_get_stage_by_name never reads a freed stage, and what it returns is
\* NULL or a stage whose memory is not freed, whose teardown has not started
\* and on which the caller now owns a strong reference; when the matching
\* stage is in teardown (strong count zero) it returns NULL.
C4_ByNameNeverFreed ==
    \A t \in Threads :
        /\ hist.uaf[t] # "by_name"
        /\ (pc[t] = "done" /\ res[t].op = "by_name" /\ res[t].val # NULL) =>
              /\ mem[res[t].val] = "live"
              /\ hist.destroyRuns[res[t].val] = 0
              /\ hist.zeroBy[res[t].val] = {}
              /\ refs[res[t].val] >= 1
              /\ owned[t][res[t].val] >= 1
              /\ sname[res[t].val] = lname[t]
        /\ (pc[t] = "done" /\ res[t].op = "by_name" /\ res[t].stage # NULL
            /\ res[t].val = NULL) => hist.zeroBy[res[t].stage] # {}

\* C4 witness: the lookup found the stage while another thread was tearing it
\* down after the final release, and returned NULL.
C4_Witness ==
    \E t \in Threads, u \in Threads :
        /\ t # u
        /\ pc[t] = "done" /\ res[t].op = "by_name" /\ res[t].val = NULL
        /\ res[t].stage # NULL
        /\ mem[res[t].stage] = "live"
        /\ pc[u] \in InDestroy /\ lstage[u] = res[t].stage

\* C5: an enumeration whose callback never asks to stop, also one whose
\* callback destroyed the stage it was called with, ends (no deadlock on the
\* registry mutex), never reads a freed stage, and has called the callback
\* exactly once for every stage that was in the registry when it started, in
\* registry order.
C5_EnumSurvivesDestroy ==
    /\ [](\A t \in Threads :
             /\ hist.uaf[t] # "enum"
             /\ (pc[t] = "done" /\ res[t].op = "enum" /\ ~hist.cbStopped[t]) =>
                    hist.visited[t] = hist.enumStart[t])
    /\ \A t \in Threads : (pc[t] = "enum_loop") ~> (pc[t] = "done")

\* C5 witness: the callback destroyed the first stage of a registry of at
\* least two, and the enumeration ended after visiting them all.
C5_Witness ==
    \E t \in Threads :
        /\ pc[t] = "done" /\ res[t].op = "enum" /\ ~hist.cbStopped[t]
        /\ Len(hist.enumStart[t]) >= 2
        /\ hist.enumStart[t][1] \in hist.cbDestroyed[t]
        /\ mem[hist.enumStart[t][1]] = "freed"
        /\ hist.visited[t] = hist.enumStart[t]

Returned(t, op) == pc[t] = "done" /\ res[t].op = op

\* C6: when the threads call obs_stage_add_output for the same stage and the
\* same live output that the stage does not hold yet, then once all the calls
\* have returned exactly one of them returned true, the stage holds the output
\* once (its count grew by one), and the output gained exactly one reference.
C6_ConcurrentAddOnce ==
    (\A t \in Threads : Returned(t, "add_output")) =>
        LET s == lstage[1]
            o == lout[1]
        IN  /\ Cardinality({t \in Threads : res[t].val = TRUE}) = 1
            /\ Cardinality({i \in 1..Len(outputs[s]) : outputs[s][i] = o}) = 1
            /\ Len(outputs[s]) = Len(OutputsInit(s)) + 1
            /\ orefs[o] = ORefsInit(o) + 1

C6_Witness ==
    /\ \A t \in Threads : Returned(t, "add_output")
    /\ \E t \in Threads : res[t].val = FALSE
    /\ \E t \in Threads : res[t].val = TRUE
    /\ Len(outputs[lstage[1]]) = Len(OutputsInit(lstage[1])) + 1

NoDuplicates == \A s \in Stages : \A i, j \in 1..Len(outputs[s]) : outputs[s][i] = outputs[s][j] => i = j

AddStep(t) ==
    LET s == lstage[t]
        o == lout[t]
    IN
    /\ (pc[t] = "ao_scan" /\ pc'[t] # "ao_scan") =>
           IF o \in Range(outputs[s])
           THEN /\ Returned(t, "add_output")' /\ res'[t].val = FALSE
                /\ outputs' = outputs /\ orefs' = orefs
           ELSE pc'[t] = "ao_push"
    /\ (pc[t] = "ao_push" /\ pc'[t] # "ao_push") =>
           /\ o \notin Range(outputs[s])
           /\ IF orefs[o] > 0
              THEN /\ pc'[t] = "ao_signal"
                   /\ outputs'[s] = Append(outputs[s], o)
                   /\ Len(outputs'[s]) = Len(outputs[s]) + 1
                   /\ orefs'[o] = orefs[o] + 1
              ELSE /\ Returned(t, "add_output")' /\ res'[t].val = FALSE
                   /\ outputs' = outputs /\ orefs' = orefs
    /\ (pc[t] = "ao_signal" /\ pc'[t] # "ao_signal") =>
           Returned(t, "add_output")' /\ res'[t].val = TRUE
    /\ (pc[t] # "done" /\ Returned(t, "add_output")' /\ res'[t].val = TRUE) => pc[t] = "ao_signal"

\* C7: a stage's collection holds each output at most once, and
\* obs_stage_add_output returns true, with the count one higher, exactly when
\* the output was absent and its reference could be taken; when the output is
\* already there, or its reference cannot be taken, it returns false and the
\* collection and the output's references are as before.
C7_AddNoDuplicates ==
    /\ []NoDuplicates
    /\ [][\A t \in Threads : AddStep(t)]_vars

C7_Witness ==
    \E t, u \in Threads :
        /\ Returned(t, "add_output") /\ res[t].val = FALSE
        /\ lout[t] \in Range(outputs[lstage[t]])
        /\ pc[u] = "ao_signal" /\ lout[u] \in Range(outputs[lstage[u]])

RemoveStep(t) ==
    LET s == lstage[t]
        o == lout[t]
    IN
    /\ (pc[t] = "ro_scan" /\ pc'[t] # "ro_scan") =>
           IF o \notin Range(outputs[s])
           THEN /\ Returned(t, "remove_output")' /\ res'[t].val = FALSE
                /\ outputs' = outputs /\ orefs' = orefs /\ oactive' = oactive
           ELSE pc'[t] = "ro_signal"
    /\ pc[t] \in {"ro_signal", "ro_release"} => outputs'[s] = outputs[s]
    /\ (pc[t] = "ro_erase" /\ pc'[t] # "ro_erase") =>
           /\ Returned(t, "remove_output")' /\ res'[t].val = TRUE
           /\ Len(outputs'[s]) = Len(outputs[s]) - 1
           /\ o \notin Range(outputs'[s])
           /\ ~oactive'[o]
    /\ (pc[t] # "done" /\ Returned(t, "remove_output")' /\ res'[t].val = TRUE) => pc[t] = "ro_erase"

\* C8: obs_stage_remove_output of an output the stage does not hold returns
\* false and changes nothing; of an output it holds it returns true, the count
\* is one lower, the output is no longer in the collection, and the output is
\* inactive (it was stopped first if it was active).
C8_RemoveOutput == [][\A t \in Threads : RemoveStep(t)]_vars

\* The stage held the last reference to the output it was told to remove: the
\* output was released, erased, and read again for the log line.
C8_ReadAfterRelease ==
    \E t \in Threads :
        /\ pc[t] = "ub" /\ hist.uaf[t] = "remove_output"
        /\ orefs[lout[t]] = 0
        /\ lout[t] \notin Range(outputs[lstage[t]])

Released(s, i) ==
    \E t \in Threads :
        /\ lstage[t] = s
        /\ \/ pc[t] = "d_outputs" /\ i < lidx[t]
           \/ pc[t] = "ro_erase" /\ i = lidx[t]

Held(s, o) == Cardinality({i \in 1..Len(outputs[s]) : outputs[s][i] = o /\ ~Released(s, i)})

\* C9: a stage's collection holds exactly one reference to each output it
\* contains: the references of an output are those of its outside holders plus
\* one for each collection that holds it, so obs_stage_add_output took one,
\* and obs_stage_remove_output and obs_stage_destroy gave each one back once.
C9_OneRefPerOutput ==
    \A o \in Outputs :
        /\ \A s \in Stages : Held(s, o) <= 1
        /\ orefs[o] = oext[o] + Sum([s \in Stages |-> Held(s, o)], Stages)

C9_Witness ==
    /\ mem[1] = "freed"
    /\ orefs[1] = oext[1] /\ oext[1] > 0
    /\ \E t \in Threads : Returned(t, "remove_output") /\ res[t].val = TRUE
    /\ \E s \in Stages : outputs[s] # <<>>

RenameSignals ==
    LET hit == {r \in BagToSet(sigs) : r.sig \in {"rename", "stage_rename"}}
    IN  [r \in hit |-> CopiesIn(r, sigs)]

SetNameCall(t) ==
    /\ pc[t] = "idle"
    /\ \/ pc'[t] = "sn_apply"
       \/ pc'[t] = "done" /\ res'[t].op = "set_name"

SetNameStep(t) ==
    LET s == lstage'[t]
        name == lname'[t]
    IN
    (SetNameCall(t) /\ s # NULL) =>
        ((OBS_STAGE_MAIN \in sflags[s] \/ name \in {"null", ""} \/ name = sname[s]) =>
            /\ pc'[t] = "done"
            /\ sname' = sname
            /\ cname' = cname
            /\ RenameSignals' = RenameSignals)

\* C10: obs_stage_set_name changes neither the stage's name nor the canvas
\* name and emits neither "rename" nor "stage_rename" when the stage has
\* OBS_STAGE_MAIN, when the name is NULL or empty, or when the name is the
\* stage's current name: such a call returns at once, and names and rename
\* signals change only in the rename of a call that passed all three checks.
C10_SetNameNoOp ==
    /\ [](\A t \in Threads : pc[t] = "sn_apply" =>
              /\ OBS_STAGE_MAIN \notin sflags[lstage[t]]
              /\ lname[t] \notin {"null", ""})
    /\ [][/\ \A t \in Threads : SetNameStep(t)
          /\ (sname' # sname \/ cname' # cname \/ RenameSignals' # RenameSignals) =>
                 \E t \in Threads : pc[t] = "sn_apply" /\ pc'[t] = "done"]_vars

C10_Witness ==
    \E t, u \in Threads :
        /\ Returned(t, "set_name") /\ lstage[t] # NULL
        /\ OBS_STAGE_MAIN \in sflags[lstage[t]]
        /\ lname[t] \notin {"null", "", sname[lstage[t]]}
        /\ Returned(u, "set_name") /\ lstage[u] # NULL
        /\ OBS_STAGE_MAIN \notin sflags[lstage[u]]
        /\ lname[u] = sname[lstage[u]]
        /\ SigCount("stage", "rename", lstage[u]) = 0

RenameStep(t) ==
    LET s == lstage'[t]
        name == lname'[t]
    IN
    /\ (SetNameCall(t) /\ s # NULL) =>
           ((OBS_STAGE_MAIN \notin sflags[s] /\ name \notin {"null", "", sname[s]}) =>
               pc'[t] = "sn_apply" /\ sname' = sname /\ sigs' = sigs)
    /\ (pc[t] = "sn_apply" /\ pc'[t] = "sn_apply") => sname'[lstage[t]] = sname[lstage[t]]
    /\ (pc[t] = "sn_apply" /\ pc'[t] # "sn_apply") =>
           LET r == Signal("stage", "rename", lstage[t], NULL, sname'[lstage[t]], sname[lstage[t]])
           IN  /\ Returned(t, "set_name")'
               /\ sname'[lstage[t]] = lname[t]
               /\ sname[lstage[t]] # lname[t]
               /\ CopiesIn(r, sigs') = CopiesIn(r, sigs) + 1
               /\ SigCount("stage", "rename", lstage[t])' = SigCount("stage", "rename", lstage[t]) + 1

\* C11: obs_stage_set_name on a stage without OBS_STAGE_MAIN, with a non-empty
\* name that is not the current one, sets the stage's name to that name and
\* fires exactly one "rename" on the stage's bus, whose prev_name is the name
\* the stage had when the call began and whose new_name is the name it has
\* when the call returns.
C11_RenameSignal == [][\A t \in Threads : RenameStep(t)]_vars

C11_Witness ==
    \E t \in Threads :
        /\ Returned(t, "set_name") /\ lstage[t] # NULL
        /\ sname[lstage[t]] = lname[t]
        /\ sname[lstage[t]] # StageName(lstage[t])
        /\ SigCount("stage", "rename", lstage[t]) = 1
        /\ CopiesIn(Signal("stage", "rename", lstage[t], NULL, lname[t], StageName(lstage[t])), sigs) = 1

DestroySignalled(s) ==
    /\ SigCount("obs", "stage_destroy", s) = 1
    /\ SigCount("stage", "destroy", s) = 1

InRegistry(s) == s \in Range(Registry)

TeardownPhase(t) ==
    LET s == lstage[t] IN
    /\ pc[t] = "d_signal" =>
           /\ SigCount("obs", "stage_destroy", s) = 0 /\ SigCount("stage", "destroy", s) = 0
           /\ canvas[s] = "bound" /\ InRegistry(s) /\ mem[s] = "live"
    /\ pc[t] \in {"d_lock", "d_outputs"} =>
           DestroySignalled(s) /\ canvas[s] = "bound" /\ InRegistry(s) /\ mem[s] = "live"
    /\ pc[t] = "d_canvas" =>
           /\ DestroySignalled(s) /\ outputs[s] = <<>>
           /\ canvas[s] = "bound" /\ InRegistry(s) /\ mem[s] = "live"
    /\ pc[t] = "d_unlink" =>
           /\ DestroySignalled(s) /\ outputs[s] = <<>>
           /\ canvas[s] = "released" /\ InRegistry(s) /\ mem[s] = "live"
    /\ pc[t] = "d_free" =>
           /\ DestroySignalled(s) /\ outputs[s] = <<>>
           /\ canvas[s] = "released" /\ ~InRegistry(s) /\ mem[s] = "live"

TeardownStep(t) ==
    LET s == lstage[t] IN
    /\ (pc[t] = "d_signal" /\ pc'[t] # "d_signal") =>
           /\ DestroySignalled(s)'
           /\ outputs' = outputs /\ orefs' = orefs /\ oactive' = oactive /\ canvas' = canvas
    /\ (pc[t] = "d_outputs" /\ lidx'[t] = lidx[t] + 1) =>
           LET o == outputs[s][lidx[t]] IN ~oactive'[o] /\ orefs'[o] = orefs[o] - 1
    /\ (pc[t] = "d_outputs" /\ pc'[t] # "d_outputs") => lidx[t] = Len(outputs[s]) + 1

\* C12: obs_stage_destroy emits "stage_destroy" and "destroy" first, with the
\* outputs still in the collection and the canvas bound; then stops every
\* active output of the collection and releases each one; then releases the
\* canvas; then unlinks the stage from the registry; and only then frees the
\* stage, which the registry no longer contains.
C12_TeardownOrder ==
    /\ [](\A t \in Threads : TeardownPhase(t))
    /\ [](\A s \in Stages : mem[s] = "freed" =>
              DestroySignalled(s) /\ outputs[s] = <<>> /\ canvas[s] = "released" /\ ~InRegistry(s))
    /\ [][\A t \in Threads : TeardownStep(t)]_vars

C12_Witness ==
    \E s \in Stages :
        /\ mem[s] = "freed" /\ ~InRegistry(s) /\ DestroySignalled(s)
        /\ \E o \in Outputs : orefs[o] = 0 /\ oext[o] = 0 /\ SigCount("stage", "output_add", s) > 0

\* The stage a thread has in hand while it walks the registry under the mutex.
Walking(t, s) ==
    /\ stages_mutex.owner = t
    /\ lstage[t] = s
    /\ pc[t] \in {"enum_cb", "bn_walk"}

TeardownBegun(s) == refs[s] = 0 \/ canvas[s] # "bound" \/ mem[s] # "live"

\* C13: a thread that walks the registry under the registry mutex (the callback
\* of obs_enum_stages, the comparison of obs_get_stage_by_name) never has a
\* stage in hand whose teardown has begun (strong count zero, outputs drained
\* or canvas released): the registry holds a stage only until its teardown
\* starts.
C13_RegistryLiveOnly ==
    /\ \A t \in Threads, s \in Stages : Walking(t, s) => ~TeardownBegun(s)
    /\ \A s \in Stages : InRegistry(s) /\ stages_mutex.owner # NULL => ~TeardownBegun(s)

\* The callback of obs_enum_stages is called with a stage of another thread's
\* teardown: its count is zero and its canvas is already released.
C13_SeenInTeardown ==
    \E t \in Threads :
        /\ pc[t] = "enum_cb" /\ stages_mutex.owner = t
        /\ lstage[t] # NULL
        /\ refs[lstage[t]] = 0 /\ canvas[lstage[t]] = "released" /\ mem[lstage[t]] = "live"
        /\ \E u \in Threads \ {t} : lstage[u] = lstage[t] /\ pc[u] = "d_unlink"

HoldsNoMutex(t) ==
    /\ stages_mutex.owner # t
    /\ \A s \in Stages : outputs_mutex[s] # t

\* C14: whenever a signal is dispatched, the thread that emits it holds neither
\* the registry mutex nor the outputs mutex of any stage.
C14_SignalsOutsideLocks ==
    [][sigs' # sigs => \A t \in Threads : pc'[t] # pc[t] => HoldsNoMutex(t)]_vars

\* obs_stage_remove_output has dispatched "output_remove" and still holds the
\* outputs mutex of the stage.
C14_SignalUnderMutex ==
    \E t \in Threads :
        /\ pc[t] = "ro_release"
        /\ outputs_mutex[lstage[t]] = t
        /\ CopiesIn(Signal("stage", "output_remove", lstage[t], lout[t], "", ""), sigs) > 0

GlobalSignals(s) == {r \in BagToSet(sigs) : r.bus = "obs" /\ r.stage = s}

\* C15: no signal is emitted on the global bus for a stage created by
\* obs_stage_create_private: not "stage_create", not "stage_rename", not
\* "stage_destroy".
C15_PrivateNoGlobalSignals ==
    \A s \in Stages : (mem[s] # "none" /\ spriv[s]) => GlobalSignals(s) = {}

\* A private stage was created and renamed without a global signal, and its
\* teardown emitted "stage_destroy" on the global bus.
C15_PrivateStageDestroySignal ==
    \E s \in Stages :
        /\ spriv[s] /\ mem[s] = "freed"
        /\ SigCount("obs", "stage_create", s) = 0
        /\ SigCount("stage", "rename", s) = 1 /\ SigCount("obs", "stage_rename", s) = 0
        /\ SigCount("obs", "stage_destroy", s) = 1

Reverse(seq) == [i \in 1..Len(seq) |-> seq[Len(seq) + 1 - i]]

\* What undoes each step of construction that leaves something behind.
UndoOf ==
    [bzalloc |-> "bfree",
     obs_context_data_init |-> "obs_context_data_free",
     pthread_mutex_init |-> "pthread_mutex_destroy"]

IsBuild(x) == x \in DOMAIN UndoOf
IsUndo(x) == x \in Range(UndoOf)

\* Every step of the log that left something behind is undone, the last one
\* first, and nothing is undone before the last step was made.
RolledBack(log) ==
    LET built == SelectSeq(log, IsBuild)
        undone == SelectSeq(log, IsUndo)
    IN  /\ undone = Reverse([i \in 1..Len(built) |-> UndoOf[built[i]]])
        /\ \A i, j \in 1..Len(log) : (IsUndo(log[i]) /\ ~IsUndo(log[j])) => j < i

CreateOps == {"create", "create_private", "load_stage"}

CreateStep(t) ==
    (pc[t] = "idle" /\ pc'[t] = "done" /\ res'[t].op \in CreateOps /\ hist'.ctor[t] # <<>>) =>
        /\ res'[t].val = NULL
        /\ RolledBack(hist'.ctor[t])
        /\ regVars' = regVars /\ sigs' = sigs
        /\ stageVars' = stageVars /\ ctlVars' = ctlVars /\ mtxVars' = mtxVars

FullyBuilt(log) ==
    /\ ~\E i \in 1..Len(log) : IsUndo(log[i])
    /\ \A x \in {"obs_context_data_init", "signal_handler_add_array", "pthread_mutex_init",
                 "obs_canvas_create_private", "obs_context_init_control"} : x \in Range(log)

\* C16: when a step of a stage's construction fails, the create call returns
\* NULL with the registry, the signals and every stage as they were, and with
\* everything the earlier steps had built undone in reverse order; a stage is
\* linked into the registry, and "stage_create" emitted, only after every step
\* succeeded.
C16_ConstructionRollback ==
    /\ [](\A t \in Threads : pc[t] \in {"c_link", "c_signal"} => FullyBuilt(hist.ctor[t]))
    /\ [](\A s \in Stages : InRegistry(s) => mem[s] = "live" /\ ctl[s] = "live" /\ canvas[s] # "none")
    /\ [](\A s \in Stages : SigCount("obs", "stage_create", s) > 0 => mem[s] # "none")
    /\ [][\A t \in Threads : CreateStep(t)]_vars

C16_Witness ==
    \E t \in Threads :
        /\ pc[t] = "done" /\ res[t].op \in CreateOps /\ res[t].val = NULL
        /\ hist.ctor[t] = <<"bzalloc", "obs_context_data_init", "signal_handler_add_array",
                            "pthread_mutex_init", "pthread_mutex_destroy",
                            "obs_context_data_free", "bfree">>
        /\ first_stage # NULL /\ \E s \in Stages : mem[s] = "none"

SaveStep(t) ==
    (pc[t] = "idle" /\ pc'[t] = "done" /\ res'[t].op = "save_stage" /\ res'[t].stage # NULL) =>
        /\ (res'[t].val = DataNull) = (OBS_STAGE_EPHEMERAL \in sflags[res'[t].stage])
        /\ UNCHANGED <<stageVars, regVars, ctlVars, sigs>>

RoundTripStep(t) ==
    (pc[t] = "ld_create" /\ pc'[t] = "c_link" /\ hist.snap[t].stage # NULL) =>
        LET new == lstage'[t]
            was == hist.snap[t]
        IN  /\ mem[new] = "none" /\ mem'[new] = "live"
            /\ OBS_STAGE_EPHEMERAL \notin was.flags
            /\ sname'[new] = was.name
            /\ sflags'[new] = was.flags \ {OBS_STAGE_MAIN}
            /\ was.video # VideoNone => video'[new] = was.video

C17_WitnessPrimary ==
    \E t \in Threads :
        /\ pc[t] = "done" /\ res[t].op = "load_stage" /\ res[t].val # NULL
        /\ OBS_STAGE_MAIN \in hist.snap[t].flags
        /\ sflags[res[t].val] = {OBS_STAGE_MIX_AUDIO}

\* The step of a create or load call that brings a stage into being.
Creates(t) == pc[t] \in {"idle", "ld_create"} /\ pc'[t] = "c_link"

CreateFlagsStep(t) ==
    Creates(t) =>
        LET new == lstage'[t] IN
        /\ OBS_STAGE_MAIN \notin sflags'[new]
        /\ pc[t] = "ld_create" =>
               sflags'[new] \cup {OBS_STAGE_MAIN} =
                   IntToFlags(obs_data_get_int(res[t].val, "flags")) \cup {OBS_STAGE_MAIN}
        /\ pc[t] = "idle" =>
               \E f \in FlagArgs : sflags'[new] \cup {OBS_STAGE_MAIN} = f \cup {OBS_STAGE_MAIN}

\* C18: a stage made by obs_load_stage, obs_stage_create or
\* obs_stage_create_private never has the primary bit, whatever the record or
\* the caller asked for; its other flag bits are the ones asked for, and the
\* flags of a stage never change from its creation to the end of its teardown.
C18_PrimaryStripped ==
    /\ [][\A t \in Threads : CreateFlagsStep(t)]_vars
    /\ [][\A s \in Stages : mem[s] # "none" => sflags'[s] = sflags[s]]_vars
    /\ [](\A s \in Stages : OBS_STAGE_MAIN \notin sflags[s])

C18_Witness ==
    \E t \in Threads, s \in Stages :
        /\ pc[t] = "done" /\ res[t].op = "load_stage" /\ res[t].val \in Stages \ {s}
        /\ sflags[res[t].val] = {OBS_STAGE_EPHEMERAL}
        /\ sflags[s] = {OBS_STAGE_MIX_AUDIO} /\ mem[s] = "freed"

\* A thread is inside obs_free_stages, the teardown it called included.
InFreeStages(t) == pc[t] \in {"fs_loop", "fs_next"} \/ "fs_next" \in Range(stk[t])

\* C19: when obs_free_stages returns, every stage that was in the registry
\* has been torn down exactly once and the registry is empty; and the thread
\* does not hold the registry mutex when the teardown of a stage takes that
\* mutex for the unlink.
C19_FreeStagesOutsideLock ==
    \A t \in Threads :
        /\ Returned(t, "free_stages") =>
               /\ first_stage = NULL
               /\ \A i \in 1..Len(hist.enumStart[t]) :
                      LET s == hist.enumStart[t][i] IN
                      mem[s] = "freed" /\ hist.destroyRuns[s] = 1
        /\ (InFreeStages(t) /\ pc[t] = "d_unlink") => stages_mutex.owner # t

C19_TeardownUnderRegistryMutex ==
    \E t \in Threads :
        /\ InFreeStages(t) /\ pc[t] = "d_unlink"
        /\ stages_mutex = [owner |-> t, depth |-> 1]
        /\ lstage[t] = first_stage /\ mem[lstage[t]] = "live"

\* The value an operation returns for an invalid argument.
Sentinel(op) ==
    IF op \in DOMAIN NullReturn THEN NullReturn[op]
    ELSE IF op \in {"set_name", "enum"} THEN "void"
    ELSE IF op = "save_stage" THEN DataNull
    ELSE NULL

\* The call a thread makes returns at once with the sentinel and nothing but
\* the thread's own locals has changed.
NoOpStep(t) ==
    (pc[t] = "idle" /\ pc'[t] # "idle") =>
        /\ pc'[t] = "done"
        /\ res'[t].val = Sentinel(res'[t].op)
        /\ UNCHANGED <<stageVars, regVars, ctlVars, outVars, mtxVars, sigs, ownVars>>

\* C20: a call of a public stage operation with a NULL stage, a NULL output, a
\* NULL or empty name, a NULL record or a NULL callback returns its failure
\* sentinel at once, with no signal emitted, no mutex taken and the registry,
\* the collections and the reference counts as they were.
C20_InvalidArgumentNoOp == [][\A t \in Threads : NoOpStep(t)]_vars

\* The same for every operation but the two that create a stage by name.
C20_CheckedOperations ==
    [][\A t \in Threads : res'[t].op \notin {"create", "create_private"} => NoOpStep(t)]_vars

C20_UnnamedStageCreated ==
    \E t \in Threads :
        /\ Returned(t, "create") /\ lname[t] = "" /\ res[t].val # NULL
        /\ InRegistry(res[t].val) /\ sname[res[t].val] = ""
        /\ SigCount("obs", "stage_create", res[t].val) = 1

\* A thread is in the teardown of a stage.
InTeardown(t) == pc[t] \in {"d_signal", "d_lock", "d_outputs", "d_canvas", "d_unlink", "d_free"}

\* C21: the teardown of a stage is started only by the obs_stage_release that
\* brought its strong count to zero, also when obs_free_stages runs while a
\* holder still owns a reference that it releases later: a stage whose
\* memory was freed has strong count zero and was torn down at most once.
C21_TeardownOnlyAtZero ==
    /\ \A t \in Threads : InTeardown(t) => refs[lstage[t]] = 0
    /\ \A s \in Stages : mem[s] = "freed" => refs[s] = 0 /\ hist.destroyRuns[s] <= 1

C21_FreedWhileHeld ==
    \E t \in Threads, s \in Stages :
        /\ first_stage = NULL /\ stages_mutex = MutexFree
        /\ mem[s] = "freed" /\ hist.destroyedBy[s] = Threads
        /\ hist.uaf[t] = "release" /\ lstage[t] = s
        /\ hist.destroyRuns[s] = 2

\* What obs_stage_get_output returns for the indices 0 .. count - 1.
Listed(s) == [i \in 1..obs_stage_get_output_count(s) |-> obs_stage_get_output(s, i - 1)]

\* seq without x, the others in the order they had.
Without(seq, x) == SelectSeq(seq, LAMBDA y : y # x)

OrderStep(t) ==
    LET s == lstage[t]
        o == lout[t]
    IN  /\ (pc[t] = "ao_push" /\ pc'[t] = "ao_signal") =>
               Listed(s)' = Listed(s) \o <<o>>
        /\ (pc[t] = "ro_erase" /\ pc'[t] # "ro_erase") =>
               /\ \E i \in 1..Len(Listed(s)) : Listed(s)[i] = o
               /\ Listed(s)' = Without(Listed(s), o)
               /\ Len(Listed(s)') = Len(Listed(s)) - 1

\* C22: the outputs read through obs_stage_get_output(0 .. count - 1) are the
\* outputs the stage holds, each once and none of them NULL; a successful add
\* puts the new output behind the others, and a successful remove takes its
\* output out and leaves the others in the order they had, the later ones one
\* index lower; nothing else changes the listing.
C22_InsertionOrder ==
    /\ [](\A s \in Stages : \A i, j \in 1..Len(Listed(s)) :
              Listed(s)[i] # NULL /\ (i # j => Listed(s)[i] # Listed(s)[j]))
    /\ [][\A t \in Threads : OrderStep(t)]_vars
    /\ [][\A s \in Stages : Listed(s)' # Listed(s) =>
              \E t \in Threads : lstage[t] = s /\ pc[t] \in {"ao_push", "ro_erase"}
                                     /\ pc'[t] # pc[t]]_vars

C22_Witness ==
    \E t \in Threads :
        /\ Returned(t, "add_output") /\ res[t].val = TRUE
        /\ Listed(1) = <<3, 1>>
        /\ obs_stage_get_output(1, 0) = 3 /\ obs_stage_get_output(1, 2) = NULL

Scanning(t) == pc[t] \in {"sa_scan", "so_scan"}

\* One round of a scan: the thread looks at the output at its index.
ScanStep(t) ==
    LET s == lstage[t]
        o == outputs[s][lidx[t]]
        call == IF pc[t] = "sa_scan" THEN "start" ELSE "stop"
        signal == IF pc[t] = "sa_scan" THEN "output_start" ELSE "output_stop"
        differs == IF pc[t] = "sa_scan" THEN ~oactive[o] ELSE oactive[o]
        done == IF pc[t] = "sa_scan" THEN oactive'[o] ELSE ~oactive'[o]
    IN
    (Scanning(t) /\ lidx'[t] = lidx[t] + 1) =>
        IF differs
        THEN /\ hist'.ocalls[t] = Append(hist.ocalls[t], OCall(call, o, done))
             /\ sigs' = IF done THEN stage_dosignal_output(sigs, s, signal, o) ELSE sigs
             /\ \A x \in DOMAIN oactive : x # o => oactive'[x] = oactive[x]
             /\ pc[t] = "so_scan" => done
        ELSE /\ hist'.ocalls[t] = hist.ocalls[t]
             /\ sigs' = sigs
             /\ oactive' = oactive

\* C23: a round of obs_stage_start_all_outputs calls start only on an output
\* that is not active and signals output_start once exactly when the start
\* succeeded; a round of obs_stage_stop_all_outputs stops only an output that
\* is active and signals output_stop once for it; the thread holds the
\* stage's outputs mutex from the first round to the last, the collection
\* does not change in between, and each output is visited once.
C23_BulkStartStop ==
    /\ [](\A t \in Threads : Scanning(t) =>
              /\ outputs_mutex[lstage[t]] = t
              /\ lidx[t] \in 1..(Len(outputs[lstage[t]]) + 1)
              /\ \A i, j \in 1..Len(hist.ocalls[t]) :
                     i # j => hist.ocalls[t][i].out # hist.ocalls[t][j].out)
    /\ [][\A t \in Threads : ScanStep(t)]_vars
    /\ [][\A t \in Threads : Scanning(t) =>
              /\ outputs'[lstage[t]] = outputs[lstage[t]]
              /\ pc'[t] = "done" => lidx[t] = Len(outputs[lstage[t]]) + 1]_vars

C23_Witness ==
    \E t \in Threads :
        /\ Returned(t, "start_all_outputs") /\ res[t].stage = 1
        /\ hist.ocalls[t] = <<OCall("start", 1, FALSE), OCall("start", 2, TRUE)>>
        /\ SigCount("stage", "output_start", 1) = 1
        /\ SigCount("stage", "output_stop", 1) = 1
        /\ ~oactive[1] /\ oactive[2]

\* How often output_add was emitted for output o on the bus of stage s.
OutputAdds(s, o) == CopiesIn(Signal("stage", "output_add", s, o, "", ""), sigs)

AddSignalStep(t) ==
    LET s == lstage[t]
        o == lout[t]
    IN
    /\ (pc[t] # "ao_signal" /\ pc'[t] = "ao_signal") =>
           /\ outputs_mutex[s] = t /\ HoldsNoMutex(t)'
           /\ o \notin Range(outputs[s]) /\ o \in Range(outputs'[s])
           /\ Len(outputs'[s]) = Len(outputs[s]) + 1
           /\ sigs' = sigs
    /\ (pc[t] = "ao_signal" /\ pc'[t] # "ao_signal") =>
           /\ HoldsNoMutex(t)
           /\ OutputAdds(s, o)' = OutputAdds(s, o) + 1
           /\ Returned(t, "add_output")' /\ res'[t].val = TRUE
    /\ (pc[t] # "done" /\ Returned(t, "add_output")') =>
           IF res'[t].val THEN pc[t] = "ao_signal" ELSE sigs' = sigs

\* C24: obs_stage_add_output emits output_add once in a call that returns
\* true and not at all in a call that returns false; the output_add of a call
\* is emitted after the call has pushed the output (the count is one higher)
\* and released the outputs mutex, and nothing else emits output_add.
C24_AddSignalAfterUnlock ==
    /\ [][\A t \in Threads : AddSignalStep(t)]_vars
    /\ [][\A s \in Stages, o \in Outputs :
              OutputAdds(s, o)' # OutputAdds(s, o) =>
                  \E t \in Threads : /\ pc[t] = "ao_signal" /\ pc'[t] = "done"
                                     /\ lstage[t] = s /\ lout[t] = o]_vars

C24_Witness ==
    \E t, u \in Threads :
        /\ Returned(t, "add_output") /\ res[t].val = TRUE /\ res[t].stage = 1
        /\ Returned(u, "add_output") /\ res[u].val = FALSE /\ res[u].out = res[t].out
        /\ OutputAdds(1, res[t].out) = 1
        /\ res[t].out \in Range(outputs[1])

InEnum(t) == pc[t] \in {"enum_loop", "enum_cb", "enum_next"}

\* The first n elements of a sequence.
Prefix(seq, n) == SubSeq(seq, 1, n)

\* The stage the walk of t stands at is the one that follows the visited ones.
EnumAt(t) ==
    LET n == Len(hist.visited[t]) IN
    /\ n <= Len(hist.enumStart[t])
    /\ hist.visited[t] = Prefix(hist.enumStart[t], n)
    /\ pc[t] \in {"enum_loop", "enum_cb"} =>
           lstage[t] = IF n < Len(hist.enumStart[t]) THEN hist.enumStart[t][n + 1] ELSE NULL

\* What one step does to the walk of t when no stage is torn down in it.
EnumStep(t) ==
    /\ (pc[t] = "idle" /\ pc'[t] = "enum_loop") =>
           hist'.enumStart[t] = Registry /\ hist'.visited[t] = <<>>
    /\ (pc[t] = "enum_cb" /\ pc'[t] # "enum_cb" /\ hist'.cbDestroyed[t] = {}) =>
           /\ hist'.visited[t] = Append(hist.visited[t], lstage[t])
           /\ hist'.cbStopped[t] => pc'[t] = "done" /\ stages_mutex'.owner # t
    /\ (pc[t] = "c_link" /\ pc'[t] = "c_signal") =>
           Registry' = <<lstage[t]>> \o Registry

\* C25: an enumeration in which no stage is torn down calls the callback once
\* for each stage of the registry, from the head, which is the stage linked
\* last; the callback that returns false is the last one called; the call
\* returns without the registry mutex.
C25_EnumVisitsOnce ==
    /\ [][\A t \in Threads : EnumStep(t)]_vars
    /\ [](\A t \in Threads :
             /\ (InEnum(t) /\ hist.cbDestroyed[t] = {}) =>
                    /\ hist.enumStart[t] = Registry
                    /\ Cardinality(Range(hist.enumStart[t])) = Len(hist.enumStart[t])
                    /\ EnumAt(t)
                    /\ stages_mutex.owner = t
             /\ Returned(t, "enum") => stages_mutex.owner # t
             /\ (Returned(t, "enum") /\ hist.cbDestroyed[t] = {}
                   /\ hist.enumStart[t] # <<>>) =>
                    IF hist.cbStopped[t]
                    THEN /\ hist.visited[t] # <<>>
                         /\ hist.visited[t] = Prefix(hist.enumStart[t], Len(hist.visited[t]))
                    ELSE hist.visited[t] = hist.enumStart[t])

\* C25 witnesses: a walk of two stages that ended after the callback of the
\* second one, and a walk that the first callback stopped.
C25_Witness ==
    \E t \in Threads :
        /\ Returned(t, "enum") /\ ~hist.cbStopped[t] /\ hist.cbDestroyed[t] = {}
        /\ hist.enumStart[t] = <<2, 1>> /\ hist.visited[t] = <<2, 1>>

C25_WitnessStopped ==
    \E t \in Threads :
        /\ Returned(t, "enum") /\ hist.cbStopped[t] /\ hist.cbDestroyed[t] = {}
        /\ Len(hist.enumStart[t]) = 2 /\ hist.visited[t] = <<hist.enumStart[t][1]>>

OutputStarts(s, o) == CopiesIn(Signal("stage", "output_start", s, o, "", ""), sigs)
OutputStops(s, o) == CopiesIn(Signal("stage", "output_stop", s, o, "", ""), sigs)

\* C26: every step that emits output_stop for an output takes that output
\* from active to inactive, and every step that emits output_start for an
\* output is a start that succeeded and leaves the output active; each such
\* step emits one signal.
C26_SignalOnTransition ==
    [][\A s \in Stages, o \in Outputs :
           /\ OutputStops(s, o)' # OutputStops(s, o) =>
                  /\ OutputStops(s, o)' = OutputStops(s, o) + 1
                  /\ oactive[o] /\ ~oactive'[o]
           /\ OutputStarts(s, o)' # OutputStarts(s, o) =>
                  /\ OutputStarts(s, o)' = OutputStarts(s, o) + 1
                  /\ oactive'[o]]_vars

\* C26 witness: obs_stage_stop_output has returned for an output that was not
\* active when it was stopped, and output_stop was emitted for it.
C26_StopSignalOnInactive ==
    \E t \in Threads :
        /\ Returned(t, "stop_output")
        /\ hist.ocalls[t] = <<OCall("stop", res[t].out, FALSE)>>
        /\ CollectionHolds(res[t].stage, res[t].out)
        /\ ~oactive[res[t].out]
        /\ OutputStops(res[t].stage, res[t].out) = 1
        /\ \A u \in Threads : hist.ocalls[u] # <<>> => u = t

\* C27: no index operation calls start, stop or is-active on, or returns, an
\* output for which the collection no longer holds its reference.
C27_NoReleasedOutputUsed ==
    \A t \in Threads : ~hist.stale[t]

\* C27 witnesses: obs_stage_start_output read the output from the array, an
\* obs_stage_remove_output then released the last reference to it and erased
\* it, and obs_stage_start_output went on to call obs_output_start on the
\* freed output; and obs_stage_get_output returned an output between the
\* release and the erase of a remove.
C27_StartOnFreedOutput ==
    \E t \in Threads :
        /\ hist.uaf[t] = "start_output" /\ hist.stale[t]
        /\ orefs[lout[t]] = 0
        /\ lout[t] \notin Range(outputs[lstage[t]])

C27_GetReturnsReleased ==
    \E t, u \in Threads :
        /\ Returned(t, "get_output") /\ res[t].val = TRUE /\ hist.stale[t]
        /\ pc[u] = "ro_erase" /\ lstage[u] = res[t].stage /\ lout[u] = res[t].out
        /\ orefs[res[t].out] = 0

\* The stages that are linked: built and linked, and not yet unlinked.
Registered ==
    {s \in Stages : /\ mem[s] = "live"
                    /\ ~\E t \in Threads : lstage[t] = s /\ pc[t] \in {"c_link", "d_free"}}

\* *s->prev_next == s
BackPointerOk(s) ==
    IF prev_next[s] = 0 THEN first_stage = s
    ELSE prev_next[s] \in Registered /\ nxt[prev_next[s]] = s

WellFormedList ==
    LET R == Registry IN
    /\ Range(R) = Registered
    /\ Cardinality(Range(R)) = Len(R)
    /\ IF R = <<>> THEN first_stage = NULL ELSE nxt[R[Len(R)]] = NULL
    /\ \A s \in Range(R) : BackPointerOk(s)

\* What one step does to the list.
ListStep ==
    IF \E t \in Threads : pc[t] = "c_link" /\ pc'[t] = "c_signal"
    THEN \E t \in Threads : Registry' = <<lstage[t]>> \o Registry /\ pc[t] = "c_link"
    ELSE IF \E t \in Threads : pc[t] = "d_unlink" /\ pc'[t] = "d_free"
    THEN \E t \in Threads : /\ pc[t] = "d_unlink" /\ lstage[t] \in Range(Registry)
                            /\ Registry' = Without(Registry, lstage[t])
    ELSE Registry' = Registry

C29_UniqueNames ==
    \A s1, s2 \in Range(Registry) : s1 # s2 => sname[s1] # sname[s2]

\* C29 witnesses: two calls of obs_stage_create with the same name have both
\* returned a stage, and both stages are in the registry under that name;
\* and obs_load_stage has returned a second stage with the name of the stage
\* the record was saved from.
C29_DuplicateCreated ==
    \E t, u \in Threads :
        /\ t # u
        /\ Returned(t, "create") /\ Returned(u, "create")
        /\ res[t].stage # NULL /\ res[u].stage # NULL /\ res[t].stage # res[u].stage
        /\ {res[t].stage, res[u].stage} \subseteq Range(Registry)
        /\ sname[res[t].stage] = sname[res[u].stage]
        /\ lname[t] = lname[u]

C29_DuplicateLoaded ==
    \E t \in Threads :
        /\ Returned(t, "load_stage") /\ res[t].stage # NULL
        /\ \E s \in Range(Registry) : s # res[t].stage /\ sname[s] = sname[res[t].stage]
        /\ res[t].stage \in Range(Registry)

====
